---- MODULE Spec2Model ----
(***************************************************************************)
(* Meridian: the partitioned vector store (meridian/engine/vector_store.py) *)
(* and the before/after protocol built on it (gap_detector.py,             *)
(* eval_harness.py).                                                       *)
(*                                                                         *)
(* Distances and scores are in tenths: cosine distance 0..20 stands for    *)
(* 0.0..2.0, and score = 10 - distance stands for 1.0 - distance.          *)
(***************************************************************************)
EXTENDS Integers, Sequences, FiniteSets, TLC

VARIABLES vs, chroma, lastOp, proto, thr, qc, call, demo

vars == <<vs, chroma, lastOp, proto, thr, qc, call, demo>>

(* ------------------------------ bounds -------------------------------- *)

\* largest top_k a caller passes
MaxTopK == 2

\* most copies of one doc_id the documents list holds
MaxDup == 1

\* most keyword signals of one partition found in a query
MaxHits == 4

\* longest gap_results list given to detect_emerging_issues
MaxResults == 4

\* largest min_cluster_size given to detect_emerging_issues
MaxClusterSize == 2

\* most distinct query texts one process embeds
MaxKeys == 101

\* most cached texts at the time of a flush_query_cache call of a long run
MaxFlushKeys == 2

\* longest injected_tickets and gap_results lists of the demo state
MaxInjected == 4

\* most documents of a partition whose fingerprint is computed
MaxDocs == 2

(* ----------------------------- universe ------------------------------- *)

\* _COLLECTION_NAMES, in the order build_index and retrieve_by_partitions use
Types == <<"KB", "SCRIPT", "TICKET">>

DocTypes == {"KB", "SCRIPT", "TICKET"}

\* the documents a caller can supply; K2 is a learned (synthetic) article
DocIds == {"K1", "K2", "S1"}

\* the synthetic tickets of the demo (get_synthetic_tickets), which the
\* pipeline indexes under their ticket numbers
SyntheticTickets == {"CS-DEMO-001", "CS-DEMO-002"}

\* the draft ids generate_draft can make, one per second of the clock
DraftIds == {"DRAFT-1", "DRAFT-2"}

\* approve_draft, line 329: doc_id = f"KB-{draft_id}"
ArticleOf(draft_id) == IF draft_id = "DRAFT-1" THEN "KB-DRAFT-1" ELSE "KB-DRAFT-2"

ArticleIds == {ArticleOf(x) : x \in DraftIds}

\* every document a store can hold: the documents of the callers, a ticket
\* of the data set, the synthetic tickets and the approved articles
AllDocIds == DocIds \cup {"CS-0"} \cup SyntheticTickets \cup ArticleIds

\* Document.doc_type
doc_type(d) ==
    IF d \in {"K1", "K2"} \cup ArticleIds THEN "KB"
    ELSE IF d = "S1" THEN "SCRIPT"
    ELSE "TICKET"

\* metadata.source_type = SYNTH_FROM_TICKET
IsSynthetic(d) == d = "K2"

\* doc.search_text[:200]: the part of the content the fingerprint reads
SearchPrefix(d) == <<"text", d>>

\* query / resolution / description texts
Texts == {"q1", "q2"}

\* the ticket numbers a data store may hold (ticket_by_number)
Tickets == {"CS-1", "CS-2"}

\* check_ticket, line 66: the Resolution field of the ticket
ResolutionText(t) == IF t = "CS-1" THEN "q1" ELSE "q2"

\* check_ticket, lines 67-69: subject and description of the ticket
DescriptionText(t) == IF t = "CS-1" THEN "q2" ELSE "q1"

\* the position of a ticket in ticket_by_number.keys()
TicketPos(t) == IF t = "CS-1" THEN 1 ELSE 2

\* the thresholds a GapDetector is made with, in tenths: 0.0, the default
\* 0.40 and GAP_SIMILARITY_THRESHOLD = 0.60
Thresholds == {0, 4, 6}

\* the cosine distance col.query reports, in tenths (0..20); it is a function
\* of the query text and of the embedding stored under the doc_id
CosineDistance(text, d) ==
    CASE text = "q1" /\ d = "K1" -> 3
      [] text = "q1" /\ d = "K2" -> 3
      [] text = "q1" /\ d = "S1" -> 5
      [] text = "q2" /\ d = "K1" -> 20
      [] text = "q2" /\ d = "K2" -> 12
      [] OTHER -> 1

\* the order in which equal distances come back: collections are visited in
\* the order of Types and the merge sort is stable
TiePos(d) ==
    CASE d = "K1" -> 1
      [] d = "K2" -> 2
      [] OTHER -> 3

Nearer(text, x, y) ==
    \/ CosineDistance(text, x) < CosineDistance(text, y)
    \/ /\ CosineDistance(text, x) = CosineDistance(text, y)
       /\ TiePos(x) <= TiePos(y)

\* candidates.sort(key=distance): ascending distance, stable
RECURSIVE SortByDistance(_, _)
SortByDistance(S, text) ==
    IF S = {} THEN <<>>
    ELSE LET m == CHOOSE x \in S : \A y \in S : Nearer(text, x, y)
         IN  <<m>> \o SortByDistance(S \ {m}, text)

Min(a, b) == IF a < b THEN a ELSE b

Range(s) == {s[i] : i \in 1..Len(s)}

\* col.query(n_results = n): the n nearest ids of one collection
ChromaQuery(ids, text, n) == SubSeq(SortByDistance(ids, text), 1, Min(n, Cardinality(ids)))

(* --------------------------- VectorStore ------------------------------ *)

NoCollection == [exists |-> FALSE, fp |-> {}, ids |-> {}]

\* VectorStore.__init__
FreshStore ==
    [is_built |-> FALSE,
     collections |-> [p \in DocTypes |-> "none"],
     documents |-> [d \in AllDocIds |-> 0],
     doc_index |-> {},
     excluded_ids |-> {}]

\* retrieve, line 279: doc_types if doc_types else list(self.collections.keys())
TargetTypes(st, doc_types) ==
    IF doc_types # {} THEN doc_types
    ELSE {p \in DocTypes : st.collections[p] # "none"}

\* retrieve, lines 286-304: over-fetched candidates of the target collections
Candidates(st, db, text, top_k, targets, all_exclude) ==
    UNION { LET count == Cardinality(db[p].ids)
                request_k == Min(IF all_exclude # {}
                                 THEN top_k + Cardinality(all_exclude)
                                 ELSE top_k, count)
            IN  IF st.collections[p] = "open"
                THEN Range(ChromaQuery(db[p].ids, text, request_k))
                ELSE {}
          : p \in targets }

\* the result loop without the exclusion test of lines 313-314
RECURSIVE BuildResultsNoExclusion(_, _, _, _, _, _, _)
BuildResultsNoExclusion(cands, i, rank, all_exclude, index, text, top_k) ==
    IF i > Len(cands) THEN <<>>
    ELSE IF rank > top_k THEN <<>>
    ELSE IF cands[i] \notin index
         THEN BuildResultsNoExclusion(cands, i + 1, rank, all_exclude, index,
                                      text, top_k)
    ELSE <<[doc_id |-> cands[i],
            doc_type |-> doc_type(cands[i]),
            score |-> 10 - CosineDistance(text, cands[i]),
            rank |-> rank]>>
         \o BuildResultsNoExclusion(cands, i + 1, rank + 1, all_exclude, index,
                                    text, top_k)

\* retrieve, lines 310-338: the result loop
RECURSIVE BuildResults(_, _, _, _, _, _, _)
BuildResults(cands, i, rank, all_exclude, index, text, top_k) ==
    IF i > Len(cands) THEN <<>>
    ELSE IF cands[i] \in all_exclude
         THEN BuildResults(cands, i + 1, rank, all_exclude, index, text, top_k)
    ELSE IF rank > top_k THEN <<>>
    ELSE IF cands[i] \notin index
         THEN BuildResults(cands, i + 1, rank, all_exclude, index, text, top_k)
    ELSE <<[doc_id |-> cands[i],
            doc_type |-> doc_type(cands[i]),
            score |-> 10 - CosineDistance(text, cands[i]),
            rank |-> rank]>>
         \o BuildResults(cands, i + 1, rank + 1, all_exclude, index, text, top_k)

\* retrieve, once the query vector is known
RetrieveResults(st, db, text, top_k, doc_types, exclude_ids) ==
    LET targets == TargetTypes(st, doc_types)
        all_exclude == exclude_ids \cup st.excluded_ids
        cands == SortByDistance(
                     Candidates(st, db, text, top_k, targets, all_exclude), text)
    IN  BuildResults(cands, 1, 1, all_exclude, st.doc_index, text, top_k)

\* retrieve and similarity_to_corpus: what is raised, if anything ("none": the
\* call returns). provider_ok is FALSE when _embed_query has to call the
\* provider and the call fails.
RetrieveRaises(st, doc_types, provider_ok) ==
    IF ~st.is_built THEN "IndexNotBuilt"
    ELSE IF ~provider_ok THEN "ProviderFailure"
    ELSE IF \E p \in TargetTypes(st, doc_types) : st.collections[p] = "deleted"
         THEN "ChromaError"
    ELSE "none"

\* similarity_to_corpus, lines 384-408: the scan for the best distance
RECURSIVE BestOfSeq(_, _, _, _, _)
BestOfSeq(cands, i, text, excluded, best) ==
    IF i > Len(cands) THEN best
    ELSE IF cands[i] \notin excluded /\ CosineDistance(text, cands[i]) < best.distance
         THEN BestOfSeq(cands, i + 1, text, excluded,
                        [doc_id |-> cands[i],
                         distance |-> CosineDistance(text, cands[i])])
    ELSE BestOfSeq(cands, i + 1, text, excluded, best)

RECURSIVE BestOverTypes(_, _, _, _, _, _)
BestOverTypes(st, db, text, targets, i, best) ==
    IF i > Len(Types) THEN best
    ELSE LET p == Types[i]
             count == Cardinality(db[p].ids)
             n_fetch == Min(IF st.excluded_ids # {}
                            THEN 1 + Cardinality(st.excluded_ids)
                            ELSE 1, count)
         IN  IF p \in targets /\ st.collections[p] = "open"
             THEN BestOverTypes(st, db, text, targets, i + 1,
                      BestOfSeq(ChromaQuery(db[p].ids, text, n_fetch), 1, text,
                                st.excluded_ids, best))
             ELSE BestOverTypes(st, db, text, targets, i + 1, best)

\* similarity_to_corpus: (max_score, best_doc_id), once the vector is known
SimilarityToCorpus(st, db, text, doc_types) ==
    LET best == BestOverTypes(st, db, text, TargetTypes(st, doc_types), 1,
                              [doc_id |-> "", distance |-> 20])
    IN  IF best.doc_id = "" THEN [score |-> 0, doc_id |-> ""]
        ELSE [score |-> 10 - best.distance, doc_id |-> best.doc_id]

(* ------------------------------ build --------------------------------- *)

\* _compute_fingerprint: md5 over the sorted (doc_id, search_text[:200]) pairs;
\* sorting makes it a function of the set of pairs
_compute_fingerprint(docs) == {<<d, SearchPrefix(d)>> : d \in docs}

\* line 189 without the comparison of the document counts
CacheHitIgnoresCount(db, p, docs) ==
    /\ db[p].exists
    /\ db[p].fp = _compute_fingerprint(docs)

\* _build_collection, line 189: the persisted collection is loaded as it is
CacheHit(db, p, docs) ==
    /\ db[p].exists
    /\ db[p].fp = _compute_fingerprint(docs)
    /\ Cardinality(db[p].ids) = Cardinality(docs)

\* _build_collection for doc_type p; provider_ok: _embed_texts returns.
\* Lines 194-203 delete the old collection and create the new, empty one
\* before line 208 embeds.
_build_collection(st, db, p, docs, provider_ok) ==
    IF CacheHit(db, p, docs)
    THEN [vs |-> [st EXCEPT !.collections[p] = "open"],
          chroma |-> db, embedded |-> {}, raised |-> "none"]
    ELSE LET created == [exists |-> TRUE,
                         fp |-> _compute_fingerprint(docs),
                         ids |-> {}]
         IN  IF provider_ok
             THEN [vs |-> [st EXCEPT !.collections[p] = "open"],
                   chroma |-> [db EXCEPT ![p] = [created EXCEPT !.ids = docs]],
                   embedded |-> docs, raised |-> "none"]
             ELSE [vs |-> [st EXCEPT !.collections[p] =
                               IF @ = "open" THEN "deleted" ELSE @],
                   chroma |-> [db EXCEPT ![p] = created],
                   embedded |-> docs, raised |-> "ProviderFailure"]

\* build_index, lines 247-258: the loop over docs_by_type, from Types[i] on;
\* fail_at is the doc_type whose embedding call fails ("none": no failure).
\* After the loop is_built is set, and lines 255-258 count every collection of
\* self.collections, which raises on one that was deleted.
RECURSIVE BuildFrom(_, _, _, _, _, _)
BuildFrom(i, st, db, docs, fail_at, embedded) ==
    IF i > Len(Types)
    THEN [vs |-> [st EXCEPT !.is_built = TRUE],
          chroma |-> db, embedded |-> embedded,
          raised |-> IF \E p \in DocTypes : st.collections[p] = "deleted"
                     THEN "ChromaError" ELSE "none"]
    ELSE LET p == Types[i]
             docs_p == {d \in docs : doc_type(d) = p}
             r == _build_collection(st, db, p, docs_p, fail_at # p)
         IN  IF docs_p = {}
             THEN BuildFrom(i + 1, st, db, docs, fail_at, embedded)
             ELSE IF r.raised # "none"
                  THEN [vs |-> r.vs, chroma |-> r.chroma,
                        embedded |-> embedded \cup r.embedded,
                        raised |-> r.raised]
             ELSE BuildFrom(i + 1, r.vs, r.chroma, docs, fail_at,
                            embedded \cup r.embedded)

\* build_index
build_index(st, db, docs, fail_at) ==
    BuildFrom(1,
              [st EXCEPT !.documents = [d \in AllDocIds |-> IF d \in docs THEN 1 ELSE 0],
                         !.doc_index = docs],
              db, docs, fail_at, {})

(* -------------------------- remove and add ---------------------------- *)

\* remove_documents that only records the exclusion
ExcludeOnly(st, doc_ids) == [st EXCEPT !.excluded_ids = @ \cup doc_ids]

\* remove_documents
remove_documents(st, doc_ids) ==
    LET documents == [d \in AllDocIds |-> IF d \in doc_ids THEN 0 ELSE st.documents[d]]
    IN  [st EXCEPT !.excluded_ids = @ \cup doc_ids,
                   !.documents = documents,
                   !.doc_index = {d \in AllDocIds : documents[d] > 0}]

\* add_documents, lines 449-460: the doc_types of by_type handled so far are
\* `done`; a doc_type without a collection is skipped (line 451)
AddToCollections(st, db, truly_new, done) ==
    [p \in DocTypes |->
        IF p \in done /\ st.collections[p] = "open"
        THEN [db[p] EXCEPT !.ids = @ \cup {d \in truly_new : doc_type(d) = p}]
        ELSE db[p]]

\* the doc_types of by_type whose documents reach the provider
EmbeddedTypes(st, truly_new) ==
    {p \in DocTypes : st.collections[p] # "none"
                      /\ \E d \in truly_new : doc_type(d) = p}

\* add_documents. fail_at: the doc_type at which _embed_texts raises, or
\* col.add on a deleted collection ("none": nothing raises); done: the
\* doc_types handled before it. embedded: the documents passed to _embed_texts.
add_documents(st, db, new_docs, fail_at, done) ==
    LET restored == new_docs \cap st.excluded_ids
        truly_new == new_docs \ st.excluded_ids
        st1 == [st EXCEPT !.excluded_ids = @ \ restored]
        db1 == AddToCollections(st, db, truly_new, done)
        embedded == {d \in truly_new : doc_type(d) \in done \cup {fail_at}
                                       /\ st.collections[doc_type(d)] # "none"}
    IN  IF fail_at # "none"
        THEN [vs |-> st1, chroma |-> db1, embedded |-> embedded,
              raised |-> IF st.collections[fail_at] = "deleted"
                         THEN "ChromaError" ELSE "ProviderFailure"]
        ELSE [vs |-> [st1 EXCEPT
                        !.documents = [d \in AllDocIds |->
                            IF d \in new_docs THEN @[d] + 1 ELSE @[d]],
                        !.doc_index = @ \cup new_docs],
              chroma |-> db1, embedded |-> embedded, raised |-> "none"]

\* get_document
get_document(st, d) == IF d \in st.doc_index THEN d ELSE "None"

(* ----------------------------- actions -------------------------------- *)

\* no demo pipeline
NoDemo == [phase |-> "none"]

Idle == proto.pc = "idle" /\ thr.writer.pc = "idle" /\ thr.reader.pc = "idle"

\* no before/after protocol is running. tickets: the tickets of the data
\* store; pre: the index when the protocol was called; removed: line 212 /
\* line 312 has run
NoProto == [kind |-> "none", pc |-> "idle", tickets |-> {},
            pre |-> [doc_index |-> {}, excluded_ids |-> {}],
            removed |-> FALSE, raised |-> "none"]

\* a request thread that mutates the index: op and docs are the call,
\* truly_new the local of add_documents, before the index and the persisted
\* store when it was called
IdleWriter == [pc |-> "idle", op |-> "none", docs |-> {}, truly_new |-> {},
               before |-> <<>>]

\* a request thread inside retrieve: its arguments and locals; atomic holds the
\* results the call gives when it runs alone on the index as it was before
\* or after each mutation that overlaps it
IdleReader == [pc |-> "idle", text |-> "", top_k |-> 0, doc_types |-> {},
               all_exclude |-> {}, candidates |-> <<>>, results |-> <<>>,
               atomic |-> {}]

NoThreads == [writer |-> IdleWriter, reader |-> IdleReader]

\* no query cache file in the persist directory
NoCacheFile == [exists |-> FALSE, model |-> "none", entries |-> {}]

\* VectorStore.__init__, lines 66 and 73-75, with no cache file: the active
\* embedding model, the query cache (an entry is a key and the model that
\* produced its vector), the count of unsaved entries, the cache file.
\* asked and answered are not fields of the program: the keys sent to the
\* provider since the store was made, and those it returned a vector for
FreshQueryCache == [embedding_model |-> "m1", cache |-> {}, dirty |-> 0,
                    file |-> NoCacheFile, asked |-> {}, answered |-> {}]

\* no function call is on record. For _embed_query, input is the set of texts
\* the step passed to it and output the set of keys it sent to the provider
NoCall == [fn |-> "none", input |-> {}, output |-> {}]

\* the last call: its name, the documents it sent to the provider and what it
\* raised
Op(name, embedded, raised) ==
    [op |-> name, embedded |-> embedded, raised |-> raised]

\* the doc_types for which build_index(docs) calls the provider
BuildEmbeds(db, docs) ==
    {p \in DocTypes : LET docs_p == {d \in docs : doc_type(d) = p}
                      IN  docs_p # {} /\ ~CacheHit(db, p, docs_p)}

\* vs.build_index(documents); the provider may fail at any of its calls
Build ==
    /\ Idle
    /\ \E docs \in SUBSET DocIds :
          \E fail_at \in BuildEmbeds(chroma, docs) \cup {"none"} :
             LET r == build_index(vs, chroma, docs, fail_at)
             IN  /\ vs' = r.vs
                 /\ chroma' = r.chroma
                 /\ lastOp' = Op("build", r.embedded, r.raised)
    /\ UNCHANGED <<proto, thr>>
    /\ UNCHANGED <<qc, call>>
    /\ UNCHANGED demo

\* vs.remove_documents(doc_ids)
Remove ==
    /\ Idle
    /\ \E doc_ids \in (SUBSET DocIds) \ {{}} :
          /\ vs' = remove_documents(vs, doc_ids)
          /\ lastOp' = Op("remove", {}, "none")
    /\ UNCHANGED <<chroma, proto, thr>>
    /\ UNCHANGED <<qc, call>>
    /\ UNCHANGED demo

\* vs.add_documents(new_docs)
\* the ways add_documents(new_docs) can run: <<fail_at, done>>. Without a
\* failure every doc_type of by_type is handled; col.add on a deleted
\* collection always raises.
AddRuns(st, new_docs) ==
    LET types == EmbeddedTypes(st, new_docs \ st.excluded_ids)
        open == {p \in types : st.collections[p] = "open"}
    IN  (IF types = open THEN {<<"none", types>>} ELSE {})
        \cup {<<p, done>> : p \in types, done \in SUBSET open}

\* vs.add_documents(new_docs); the provider may fail at any of its calls
Add ==
    /\ Idle
    /\ \E new_docs \in (SUBSET DocIds) \ {{}} :
          /\ \A d \in new_docs : vs.documents[d] < MaxDup
          /\ \E run \in AddRuns(vs, new_docs) :
                /\ run[1] \notin run[2]
                /\ LET r == add_documents(vs, chroma, new_docs, run[1], run[2])
                   IN  /\ vs' = r.vs
                       /\ chroma' = r.chroma
                       /\ lastOp' = Op("add", r.embedded, r.raised)
    /\ UNCHANGED <<proto, thr>>
    /\ UNCHANGED <<qc, call>>
    /\ UNCHANGED demo

\* vs.retrieve(query, top_k, doc_types, exclude_ids): it leaves the store as it
\* is, and returns RetrieveResults(vs, chroma, query, top_k, doc_types,
\* exclude_ids) unless it raises
Query ==
    /\ Idle
    /\ \E doc_types \in SUBSET DocTypes, provider_ok \in BOOLEAN :
          /\ provider_ok \/ vs.is_built
          /\ lastOp' = Op("retrieve", {}, RetrieveRaises(vs, doc_types, provider_ok))
    /\ UNCHANGED <<vs, chroma, proto, thr>>
    /\ UNCHANGED <<qc, call>>
    /\ UNCHANGED demo

\* vs.similarity_to_corpus(text, doc_types): it leaves the store as it is, and
\* returns SimilarityToCorpus(vs, chroma, text, doc_types) unless it raises
Similarity ==
    /\ Idle
    /\ \E doc_types \in SUBSET DocTypes, provider_ok \in BOOLEAN :
          /\ provider_ok \/ vs.is_built
          /\ lastOp' = Op("similarity", {}, RetrieveRaises(vs, doc_types, provider_ok))
    /\ UNCHANGED <<vs, chroma, proto, thr>>
    /\ UNCHANGED <<qc, call>>
    /\ UNCHANGED demo

\* the process ends and a new VectorStore() is constructed over the same
\* CHROMADB_PERSIST_DIR
Restart ==
    /\ Idle
    /\ vs' = FreshStore
    /\ lastOp' = Op("init", {}, "none")
    /\ UNCHANGED <<chroma, proto, thr>>
    /\ UNCHANGED <<qc, call>>
    /\ UNCHANGED demo

Init ==
    /\ vs = FreshStore
    /\ chroma = [p \in DocTypes |-> NoCollection]
    /\ lastOp = Op("init", {}, "none")
    /\ proto = NoProto
    /\ thr = NoThreads
    /\ qc = FreshQueryCache
    /\ call = NoCall
    /\ demo = NoDemo

Next ==
    \/ Build
    \/ Remove
    \/ Add
    \/ Query
    \/ Similarity
    \/ Restart

Spec == Init /\ [][Next]_vars

(* --------------------------- gap detection ---------------------------- *)

\* GapDetector.check_ticket for a known ticket: two similarity_to_corpus calls
\* on the KB partition, is_gap = resolution_sim < threshold
check_ticket(st, db, t, threshold) ==
    LET res == SimilarityToCorpus(st, db, ResolutionText(t), {"KB"})
        prob == SimilarityToCorpus(st, db, DescriptionText(t), {"KB"})
    IN  [ticket_number |-> t,
         is_gap |-> res.score < threshold,
         resolution_similarity |-> res.score,
         best_matching_kb_id |-> res.doc_id,
         problem_similarity |-> prob.score,
         best_matching_kb_for_problem |-> prob.doc_id]

\* the results in the order of ticket_by_number, as appended and not sorted
RECURSIVE InTicketOrder(_)
InTicketOrder(R) ==
    IF R = {} THEN <<>>
    ELSE LET m == CHOOSE x \in R : \A y \in R :
                      TicketPos(x.ticket_number) <= TicketPos(y.ticket_number)
         IN  <<m>> \o InTicketOrder(R \ {m})

\* results.sort(key=resolution_similarity): ascending and stable, the
\* results being appended in the order of ticket_by_number
RECURSIVE SortBySimilarity(_)
SortBySimilarity(R) ==
    IF R = {} THEN <<>>
    ELSE LET m == CHOOSE x \in R : \A y \in R :
                      \/ x.resolution_similarity < y.resolution_similarity
                      \/ /\ x.resolution_similarity = y.resolution_similarity
                         /\ TicketPos(x.ticket_number) <= TicketPos(y.ticket_number)
         IN  <<m>> \o SortBySimilarity(R \ {m})

\* GapDetector.scan_all_tickets
scan_all_tickets(st, db, tickets, threshold) ==
    SortBySimilarity({check_ticket(st, db, t, threshold) : t \in tickets})

\* sum(1 for r in results if r.is_gap)
total_gaps(results) ==
    Cardinality({i \in 1..Len(results) : results[i].is_gap})

(* --------------------- the before/after protocol ---------------------- *)

\* the data store's documents are DocIds; lines 190-193 (gap_detector.py) and
\* 291-296 (eval_harness.py) pick the KB documents learned from tickets
synthetic_kb_ids == {d \in DocIds : doc_type(d) = "KB" /\ IsSynthetic(d)}

\* scan_all_tickets followed by the average over its results: what it raises.
\* Each check_ticket calls similarity_to_corpus on the KB partition twice;
\* provider_ok: the provider answers for the texts that are not cached
ScanRaises(st, tickets, provider_ok) ==
    IF tickets = {} THEN "ZeroDivisionError"
    ELSE RetrieveRaises(st, {"KB"}, provider_ok)

\* the index as the caller of the protocol sees it
IndexState(st) == [doc_index |-> st.doc_index, excluded_ids |-> st.excluded_ids]

ProtoAt(kind, pc) == proto.kind = kind /\ proto.pc = pc

\* leave the protocol with an exception
ProtoRaise(raised) == [proto EXCEPT !.pc = "raised", !.raised = raised]

\* GapDetector.before_after_comparison, lines 189-207: the scan with the
\* learned articles present
G_ScanAfter ==
    /\ Idle
    /\ \E provider_ok \in BOOLEAN :
          LET raised == ScanRaises(vs, proto.tickets, provider_ok)
              called == [proto EXCEPT !.kind = "G", !.pre = IndexState(vs),
                                      !.removed = FALSE, !.raised = "none"]
          IN  /\ proto' = IF raised = "none"
                          THEN [called EXCEPT !.pc = "remove"]
                          ELSE [called EXCEPT !.pc = "raised", !.raised = raised]
              /\ lastOp' = Op("scan", {}, raised)
    /\ UNCHANGED <<vs, chroma, thr>>
    /\ UNCHANGED <<qc, call>>
    /\ UNCHANGED demo

\* lines 209-212
G_Remove ==
    /\ ProtoAt("G", "remove")
    /\ vs' = remove_documents(vs, synthetic_kb_ids)
    /\ proto' = [proto EXCEPT !.pc = "scan_before", !.removed = TRUE]
    /\ lastOp' = Op("remove", {}, "none")
    /\ UNCHANGED <<chroma, thr>>
    /\ UNCHANGED <<qc, call>>
    /\ UNCHANGED demo

\* lines 214-221: the scan without the learned articles. Its texts were
\* cached by the scan of line 200 and the ticket set is not empty, so that
\* neither the provider nor the division is reached with a failure
G_ScanBefore ==
    /\ ProtoAt("G", "scan_before")
    /\ proto' = [proto EXCEPT !.pc = "restore"]
    /\ lastOp' = Op("scan", {}, "none")
    /\ UNCHANGED <<vs, chroma, thr>>
    /\ UNCHANGED <<qc, call>>
    /\ UNCHANGED demo

\* the add_documents(synthetic_docs) of both protocols: every learned article
\* was excluded by the removal, so no document reaches the provider
RestoreSynthetic ==
    add_documents(vs, chroma, synthetic_kb_ids, "none",
                  EmbeddedTypes(vs, synthetic_kb_ids \ vs.excluded_ids))

\* lines 223-251: restore and return
G_Restore ==
    /\ ProtoAt("G", "restore")
    /\ vs' = RestoreSynthetic.vs
    /\ chroma' = RestoreSynthetic.chroma
    /\ proto' = [proto EXCEPT !.pc = "returned"]
    /\ lastOp' = Op("add", RestoreSynthetic.embedded, "none")
    /\ UNCHANGED thr
    /\ UNCHANGED <<qc, call>>
    /\ UNCHANGED demo

\* EvalHarness.eval_before_after, lines 288-308: the retrieval evaluations
\* with the learned articles present
E_EvalAfter ==
    /\ Idle
    /\ \E provider_ok \in BOOLEAN :
          LET raised == RetrieveRaises(vs, {}, provider_ok)
              called == [proto EXCEPT !.kind = "E", !.pre = IndexState(vs),
                                      !.removed = FALSE, !.raised = "none"]
          IN  /\ proto' = IF raised = "none"
                          THEN [called EXCEPT !.pc = "remove"]
                          ELSE [called EXCEPT !.pc = "raised", !.raised = raised]
              /\ lastOp' = Op("eval", {}, raised)
    /\ UNCHANGED <<vs, chroma, thr>>
    /\ UNCHANGED <<qc, call>>
    /\ UNCHANGED demo

\* lines 310-312
E_Remove ==
    /\ ProtoAt("E", "remove")
    /\ vs' = remove_documents(vs, synthetic_kb_ids)
    /\ proto' = [proto EXCEPT !.pc = "scan_before", !.removed = TRUE]
    /\ lastOp' = Op("remove", {}, "none")
    /\ UNCHANGED <<chroma, thr>>
    /\ UNCHANGED <<qc, call>>
    /\ UNCHANGED demo

\* lines 314-326: the first gap scan of the call, made while the learned
\* articles are removed, its average, and the retrieval evaluations
E_ScanBefore ==
    /\ ProtoAt("E", "scan_before")
    /\ \E provider_ok \in BOOLEAN :
          LET raised == ScanRaises(vs, proto.tickets, provider_ok)
          IN  /\ proto' = IF raised = "none"
                          THEN [proto EXCEPT !.pc = "restore"]
                          ELSE ProtoRaise(raised)
              /\ lastOp' = Op("scan", {}, raised)
    /\ UNCHANGED <<vs, chroma, thr>>
    /\ UNCHANGED <<qc, call>>
    /\ UNCHANGED demo

\* lines 328-330
E_Restore ==
    /\ ProtoAt("E", "restore")
    /\ vs' = RestoreSynthetic.vs
    /\ chroma' = RestoreSynthetic.chroma
    /\ proto' = [proto EXCEPT !.pc = "scan_after"]
    /\ lastOp' = Op("add", RestoreSynthetic.embedded, "none")
    /\ UNCHANGED thr
    /\ UNCHANGED <<qc, call>>
    /\ UNCHANGED demo

\* lines 332-336 and the return: the texts of this scan are cached
E_ScanAfter ==
    /\ ProtoAt("E", "scan_after")
    /\ proto' = [proto EXCEPT !.pc = "returned"]
    /\ lastOp' = Op("scan", {}, "none")
    /\ UNCHANGED <<vs, chroma, thr>>
    /\ UNCHANGED <<qc, call>>
    /\ UNCHANGED demo

\* the caller has the result or the exception
ProtoDone ==
    /\ proto.pc \in {"returned", "raised"}
    /\ proto' = [NoProto EXCEPT !.tickets = proto.tickets]
    /\ UNCHANGED <<vs, chroma, lastOp, thr>>
    /\ UNCHANGED <<qc, call>>
    /\ UNCHANGED demo

\* the store after main.py line 48: build_index(ds.documents) on an empty
\* persist directory
Booted == build_index(FreshStore, [p \in DocTypes |-> NoCollection], DocIds, "none")

InitProto ==
    /\ vs = Booted.vs
    /\ chroma = Booted.chroma
    /\ lastOp = Op("build", Booted.embedded, Booted.raised)
    /\ proto \in {[NoProto EXCEPT !.tickets = t] : t \in SUBSET Tickets}
    /\ thr = NoThreads
    /\ qc = FreshQueryCache
    /\ call = NoCall
    /\ demo = NoDemo

NextProto ==
    \/ Remove
    \/ Add
    \/ G_ScanAfter
    \/ G_Remove
    \/ G_ScanBefore
    \/ G_Restore
    \/ E_EvalAfter
    \/ E_Remove
    \/ E_ScanBefore
    \/ E_Restore
    \/ E_ScanAfter
    \/ ProtoDone

SpecProto == InitProto /\ [][NextProto]_vars

(* ------------------- requests served in parallel ---------------------- *)

\* The endpoints of server/app.py are plain functions, which the framework
\* runs on a pool of threads; VectorStore takes no lock. One thread mutates
\* the index and one runs retrieve; a step is a statement of the method.

\* what retrieve returns for the reader's arguments when it runs alone
AtomicResult(st, db, r) ==
    RetrieveResults(st, db, r.text, r.top_k, r.doc_types, {})

\* the index and the persisted store once the call op(docs), made on st and
\* db, has returned
Mutated(st, db, op, docs) ==
    IF op = "remove" THEN <<remove_documents(st, docs), db>>
    ELSE LET r == add_documents(st, db, docs, "none",
                                EmbeddedTypes(st, docs \ st.excluded_ids))
         IN  <<r.vs, r.chroma>>

\* a mutation op(docs) starts: a retrieve that is running may be served
\* before it or after it
Overlap(op, docs) ==
    IF thr.reader.pc = "idle" THEN thr.reader
    ELSE LET after == Mutated(vs, chroma, op, docs)
         IN  [thr.reader EXCEPT
                 !.atomic = @ \cup {AtomicResult(after[1], after[2], thr.reader)}]

\* the documents a request removes or adds in one call
WriterDocs == {{d} : d \in DocIds}

\* remove_documents, line 424
W_RemoveExclude ==
    /\ proto.pc = "idle"
    /\ thr.writer.pc = "idle"
    /\ \E doc_ids \in WriterDocs :
          /\ vs' = [vs EXCEPT !.excluded_ids = @ \cup doc_ids]
          /\ thr' = [writer |-> [pc |-> "remove_documents", op |-> "remove",
                                 docs |-> doc_ids, truly_new |-> {},
                                 before |-> <<vs, chroma>>],
                     reader |-> Overlap("remove", doc_ids)]
    /\ UNCHANGED <<chroma, lastOp, proto>>
    /\ UNCHANGED <<qc, call>>
    /\ UNCHANGED demo

\* remove_documents, line 427
W_RemoveDocuments ==
    /\ thr.writer.pc = "remove_documents"
    /\ vs' = [vs EXCEPT !.documents =
                 [d \in AllDocIds |-> IF d \in thr.writer.docs THEN 0 ELSE @[d]]]
    /\ thr' = [thr EXCEPT !.writer.pc = "remove_index"]
    /\ UNCHANGED <<chroma, lastOp, proto>>
    /\ UNCHANGED <<qc, call>>
    /\ UNCHANGED demo

\* remove_documents, line 428, and the return
W_RemoveIndex ==
    /\ thr.writer.pc = "remove_index"
    /\ vs' = [vs EXCEPT !.doc_index = {d \in AllDocIds : vs.documents[d] > 0}]
    /\ thr' = [thr EXCEPT !.writer = IdleWriter]
    /\ lastOp' = Op("remove", {}, "none")
    /\ UNCHANGED <<chroma, proto>>
    /\ UNCHANGED <<qc, call>>
    /\ UNCHANGED demo

\* add_documents, lines 435-440
W_AddRestore ==
    /\ proto.pc = "idle"
    /\ thr.writer.pc = "idle"
    /\ \E new_docs \in WriterDocs :
          /\ \A d \in new_docs : vs.documents[d] < MaxDup
          /\ vs' = [vs EXCEPT !.excluded_ids = @ \ new_docs]
          /\ thr' = [writer |-> [pc |-> "add_collections", op |-> "add",
                                 docs |-> new_docs,
                                 truly_new |-> new_docs \ vs.excluded_ids,
                                 before |-> <<vs, chroma>>],
                     reader |-> Overlap("add", new_docs)]
    /\ UNCHANGED <<chroma, lastOp, proto>>
    /\ UNCHANGED <<qc, call>>
    /\ UNCHANGED demo

\* add_documents, lines 443-460; the provider answers
W_AddCollections ==
    /\ thr.writer.pc = "add_collections"
    /\ chroma' = AddToCollections(vs, chroma, thr.writer.truly_new, DocTypes)
    /\ thr' = [thr EXCEPT !.writer.pc = "add_documents"]
    /\ UNCHANGED <<vs, lastOp, proto>>
    /\ UNCHANGED <<qc, call>>
    /\ UNCHANGED demo

\* add_documents, line 463
W_AddDocuments ==
    /\ thr.writer.pc = "add_documents"
    /\ vs' = [vs EXCEPT !.documents =
                 [d \in AllDocIds |-> IF d \in thr.writer.docs THEN @[d] + 1 ELSE @[d]]]
    /\ thr' = [thr EXCEPT !.writer.pc = "add_index"]
    /\ UNCHANGED <<chroma, lastOp, proto>>
    /\ UNCHANGED <<qc, call>>
    /\ UNCHANGED demo

\* add_documents, lines 464-465, and the return
W_AddIndex ==
    /\ thr.writer.pc = "add_index"
    /\ vs' = [vs EXCEPT !.doc_index = @ \cup thr.writer.docs]
    /\ thr' = [thr EXCEPT !.writer = IdleWriter]
    /\ lastOp' = Op("add", {d \in thr.writer.truly_new :
                               vs.collections[doc_type(d)] # "none"}, "none")
    /\ UNCHANGED <<chroma, proto>>
    /\ UNCHANGED <<qc, call>>
    /\ UNCHANGED demo

\* the doc_types a request passes to retrieve
ReaderDocTypes == {{}, {"KB"}}

\* retrieve, lines 272-282: the index is built, the query is embedded, the
\* exclusion set is copied into all_exclude
R_Begin ==
    /\ proto.pc = "idle"
    /\ thr.reader.pc = "idle"
    /\ vs.is_built
    /\ \E text \in Texts, top_k \in 1..MaxTopK, doc_types \in ReaderDocTypes :
          LET r == [IdleReader EXCEPT !.pc = "query", !.text = text,
                                      !.top_k = top_k, !.doc_types = doc_types,
                                      !.all_exclude = vs.excluded_ids]
              w == thr.writer
              views == IF w.pc = "idle" THEN {<<vs, chroma>>}
                       ELSE {w.before,
                             Mutated(w.before[1], w.before[2], w.op, w.docs)}
          IN  thr' = [thr EXCEPT !.reader =
                         [r EXCEPT !.atomic = {AtomicResult(v[1], v[2], r) :
                                                  v \in views}]]
    /\ UNCHANGED <<vs, chroma, lastOp, proto>>
    /\ UNCHANGED <<qc, call>>
    /\ UNCHANGED demo

\* retrieve, lines 285-307: the collections are queried
R_Query ==
    /\ thr.reader.pc = "query"
    /\ LET r == thr.reader
       IN  thr' = [thr EXCEPT !.reader.pc = "results",
                       !.reader.candidates =
                           SortByDistance(
                               Candidates(vs, chroma, r.text, r.top_k,
                                          TargetTypes(vs, r.doc_types),
                                          r.all_exclude), r.text)]
    /\ UNCHANGED <<vs, chroma, lastOp, proto>>
    /\ UNCHANGED <<qc, call>>
    /\ UNCHANGED demo

\* retrieve, lines 310-338: the result loop reads doc_index
R_Results ==
    /\ thr.reader.pc = "results"
    /\ LET r == thr.reader
       IN  thr' = [thr EXCEPT !.reader.pc = "done",
                       !.reader.results =
                           BuildResults(r.candidates, 1, 1, r.all_exclude,
                                        vs.doc_index, r.text, r.top_k)]
    /\ UNCHANGED <<vs, chroma, lastOp, proto>>
    /\ UNCHANGED <<qc, call>>
    /\ UNCHANGED demo

\* retrieve, line 340
R_Return ==
    /\ thr.reader.pc = "done"
    /\ thr' = [thr EXCEPT !.reader = IdleReader]
    /\ lastOp' = Op("retrieve", {}, "none")
    /\ UNCHANGED <<vs, chroma, proto>>
    /\ UNCHANGED <<qc, call>>
    /\ UNCHANGED demo

InitConc ==
    /\ vs = Booted.vs
    /\ chroma = Booted.chroma
    /\ lastOp = Op("build", Booted.embedded, Booted.raised)
    /\ proto = NoProto
    /\ thr = NoThreads
    /\ qc = FreshQueryCache
    /\ call = NoCall
    /\ demo = NoDemo

NextConc ==
    \/ W_RemoveExclude
    \/ W_RemoveDocuments
    \/ W_RemoveIndex
    \/ W_AddRestore
    \/ W_AddCollections
    \/ W_AddDocuments
    \/ W_AddIndex
    \/ R_Begin
    \/ R_Query
    \/ R_Results
    \/ R_Return

SpecConc == InitConc /\ [][NextConc]_vars

(* ----------------------- the query embedding cache -------------------- *)

\* the values OPENAI_EMBEDDING_MODEL takes from one run to the next
Models == {"m1", "m2"}

\* the texts callers pass: "q1_tail" is longer than _MAX_TEXT_CHARS and
\* starts with the _MAX_TEXT_CHARS characters of "q1"
QueryTexts == Texts \cup {"q1_tail"}

\* text[:_MAX_TEXT_CHARS], lines 132 and 159
Truncate(text) == IF text = "q1_tail" THEN "q1" ELSE text

\* _query_cache.keys()
Keys(entries) == {e.key : e \in entries}

\* _query_cache_dirty >= 100, line 166
FlushEvery == 100

\* _save_query_cache: the whole cache is written under the active model; an
\* empty cache writes nothing and a failed write is only logged
_save_query_cache(q, save_ok) ==
    IF q.cache = {} \/ ~save_ok THEN q
    ELSE [q EXCEPT !.file = [exists |-> TRUE, model |-> q.embedding_model,
                             entries |-> q.cache]]

\* a load that does not compare the model id of the file with the active one
LoadAnyModel(file, model, load_ok) ==
    [embedding_model |-> model,
     cache |-> IF file.exists /\ load_ok THEN file.entries ELSE {},
     dirty |-> 0, file |-> file, asked |-> {}, answered |-> {}]

\* _load_query_cache, made by __init__ under embedding model `model`
_load_query_cache(file, model, load_ok) ==
    [embedding_model |-> model,
     cache |-> IF file.exists /\ load_ok /\ file.model = model
               THEN file.entries ELSE {},
     dirty |-> 0, file |-> file, asked |-> {}, answered |-> {}]

\* the provider call and the store of lines 161-168, made whatever the
\* cache holds
EmbedUncached(q, cache_key, provider_ok, save_ok) ==
    IF ~provider_ok
    THEN [qc |-> [q EXCEPT !.asked = @ \cup {cache_key}],
          sent |-> {cache_key}, raised |-> "ProviderFailure"]
    ELSE LET stored == [q EXCEPT
                           !.cache = @ \cup {[key |-> cache_key,
                                              model |-> q.embedding_model]},
                           !.dirty = @ + 1,
                           !.asked = @ \cup {cache_key},
                           !.answered = @ \cup {cache_key}]
         IN  [qc |-> IF stored.dirty >= FlushEvery
                     THEN [_save_query_cache(stored, save_ok) EXCEPT !.dirty = 0]
                     ELSE stored,
              sent |-> {cache_key}, raised |-> "none"]

\* _embed_query without the lookup of line 160
EmbedNoLookup(q, text, provider_ok, save_ok) ==
    EmbedUncached(q, Truncate(text), provider_ok, save_ok)

\* _embed_query(text). provider_ok: the provider answers; save_ok: the write
\* of line 166 succeeds. sent: the keys that went to the provider
_embed_query(q, text, provider_ok, save_ok) ==
    LET cache_key == Truncate(text)
    IN  IF cache_key \in Keys(q.cache)
        THEN [qc |-> q, sent |-> {}, raised |-> "none"]
        ELSE EmbedUncached(q, cache_key, provider_ok, save_ok)

\* a call of a query method with one text. embed_first: the method embeds
\* before retrieve tests is_built (retrieve_by_partitions, line 352)
QueryCall(name, embed_first) ==
    /\ Idle
    /\ \E text \in QueryTexts, provider_ok \in BOOLEAN :
          LET rejected == ~vs.is_built /\ ~embed_first
              e == _embed_query(qc, text, provider_ok, TRUE)
              raised == IF rejected THEN "IndexNotBuilt"
                        ELSE IF e.raised # "none" THEN e.raised
                        ELSE RetrieveRaises(vs, {}, TRUE)
          IN  /\ qc' = IF rejected THEN qc ELSE e.qc
              /\ call' = IF rejected THEN NoCall
                         ELSE [fn |-> "_embed_query",
                               input |-> {text}, output |-> e.sent]
              /\ lastOp' = Op(name, {}, raised)
    /\ UNCHANGED <<vs, chroma, proto, thr>>
    /\ UNCHANGED demo

\* VectorStore.retrieve
Retrieve == QueryCall("retrieve", FALSE)

\* VectorStore.similarity_to_corpus
SimilarityToCorpusCall == QueryCall("similarity_to_corpus", FALSE)

\* VectorStore.retrieve_by_partitions
RetrieveByPartitions == QueryCall("retrieve_by_partitions", TRUE)

\* query_router.classify_query: its only call into the store is
\* retrieve_by_partitions (line 71)
ClassifyQuery == QueryCall("classify_query", TRUE)

\* query_router.route_and_retrieve: classify_query, then retrieve with a text
\* that is cached by then
RouteAndRetrieve == QueryCall("route_and_retrieve", TRUE)

\* VectorStore.flush_query_cache
FlushQueryCache ==
    /\ Idle
    /\ qc.dirty > 0
    /\ \E save_ok \in BOOLEAN :
          qc' = [_save_query_cache(qc, save_ok) EXCEPT !.dirty = 0]
    /\ call' = NoCall
    /\ lastOp' = Op("flush_query_cache", {}, "none")
    /\ UNCHANGED <<vs, chroma, proto, thr>>
    /\ UNCHANGED demo

\* a new process: VectorStore() under the configured model, on the persist
\* directory the last process left
NewProcess ==
    /\ Idle
    /\ \E model \in Models, load_ok \in BOOLEAN :
          qc' = _load_query_cache(qc.file, model, load_ok)
    /\ vs' = FreshStore
    /\ call' = NoCall
    /\ lastOp' = Op("init", {}, "none")
    /\ UNCHANGED <<chroma, proto, thr>>
    /\ UNCHANGED demo

\* main.py line 48: build_index(ds.documents); the provider answers
Boot ==
    /\ Idle
    /\ ~vs.is_built
    /\ LET r == build_index(vs, chroma, DocIds, "none")
       IN  /\ vs' = r.vs
           /\ chroma' = r.chroma
           /\ lastOp' = Op("build", r.embedded, r.raised)
    /\ call' = NoCall
    /\ UNCHANGED <<proto, thr, qc>>
    /\ UNCHANGED demo

InitCache ==
    /\ vs = FreshStore
    /\ chroma = [p \in DocTypes |-> NoCollection]
    /\ lastOp = Op("init", {}, "none")
    /\ proto = NoProto
    /\ thr = NoThreads
    /\ qc \in {[FreshQueryCache EXCEPT !.embedding_model = m] : m \in Models}
    /\ call = NoCall
    /\ demo = NoDemo

NextCache ==
    \/ Retrieve
    \/ SimilarityToCorpusCall
    \/ RetrieveByPartitions
    \/ ClassifyQuery
    \/ RouteAndRetrieve
    \/ FlushQueryCache
    \/ NewProcess
    \/ Boot

SpecCache == InitCache /\ [][NextCache]_vars

(* ------------------- the batched flush of the cache ------------------- *)

\* the query texts of a long run: text "n" is the n-th distinct one
NextText == ToString(Cardinality(qc.cache) + 1)

\* what is on disk of the in-memory cache: the entries of a cache file that
\* names the active model
Persisted(q) ==
    IF q.file.exists /\ q.file.model = q.embedding_model THEN q.file.entries ELSE {}

\* retrieve(text) on the built index with the first text again or with a
\* text not seen before; the write of line 166 may fail
RetrieveFresh ==
    /\ Idle
    /\ Cardinality(qc.cache) < MaxKeys
    /\ \E text \in {"1", NextText}, provider_ok \in BOOLEAN, save_ok \in BOOLEAN :
          LET e == _embed_query(qc, text, provider_ok, save_ok)
          IN  /\ qc' = e.qc
              /\ call' = [fn |-> "_embed_query", input |-> {text}, output |-> e.sent]
              /\ lastOp' = Op("retrieve", {},
                              IF e.raised # "none" THEN e.raised
                              ELSE RetrieveRaises(vs, {}, TRUE))
    /\ UNCHANGED <<vs, chroma, proto, thr>>
    /\ UNCHANGED demo

InitFlush ==
    /\ vs = Booted.vs
    /\ chroma = Booted.chroma
    /\ lastOp = Op("build", Booted.embedded, Booted.raised)
    /\ proto = NoProto
    /\ thr = NoThreads
    /\ qc = FreshQueryCache
    /\ call = NoCall
    /\ demo = NoDemo

\* flush_query_cache, called early in the run
FlushEarly ==
    /\ Cardinality(qc.cache) <= MaxFlushKeys
    /\ FlushQueryCache

NextFlush ==
    \/ RetrieveFresh
    \/ FlushEarly

SpecFlush == InitFlush /\ [][NextFlush]_vars

(* ------------------- gap detection on a served index ------------------ *)

\* one similarity_to_corpus(text, doc_types=['KB']) of check_ticket: the
\* is_built test, the embedding of the text, the query of the KB collection
SimilarityStep(st, q, text, provider_ok) ==
    IF ~st.is_built THEN [qc |-> q, sent |-> {}, raised |-> "IndexNotBuilt"]
    ELSE LET e == _embed_query(q, text, provider_ok, TRUE)
         IN  IF e.raised # "none" THEN e
             ELSE [e EXCEPT !.raised = RetrieveRaises(st, {"KB"}, TRUE)]

\* GapDetector.check_ticket(t): the lookup of the ticket, then the
\* similarity of its resolution, then that of its description
CheckTicket ==
    /\ Idle
    /\ \E t \in Tickets, ok_resolution \in BOOLEAN, ok_description \in BOOLEAN :
          IF t \notin proto.tickets
          THEN /\ qc' = qc
               /\ call' = [fn |-> "check_ticket", input |-> {t}, output |-> {}]
               /\ lastOp' = Op("check_ticket", {}, "ValueError")
          ELSE LET res == SimilarityStep(vs, qc, ResolutionText(t), ok_resolution)
                   prob == SimilarityStep(vs, res.qc, DescriptionText(t), ok_description)
                   last == IF res.raised # "none" THEN res ELSE prob
               IN  /\ qc' = last.qc
                   /\ call' = [fn |-> "check_ticket", input |-> {t},
                               output |-> IF res.raised # "none" THEN res.sent
                                          ELSE res.sent \cup prob.sent]
                   /\ lastOp' = Op("check_ticket", {}, last.raised)
    /\ UNCHANGED <<vs, chroma, proto, thr>>
    /\ UNCHANGED demo

\* main.py lines 47-53: the store built over the documents of the data store,
\* whose tickets are proto.tickets
InitGap ==
    /\ vs = Booted.vs
    /\ chroma = Booted.chroma
    /\ lastOp = Op("build", Booted.embedded, Booted.raised)
    /\ proto \in {[NoProto EXCEPT !.tickets = t] : t \in SUBSET Tickets}
    /\ thr = NoThreads
    /\ qc = FreshQueryCache
    /\ call = NoCall
    /\ demo = NoDemo

NextGap ==
    \/ Remove
    \/ Add
    \/ CheckTicket

SpecGap == InitGap /\ [][NextGap]_vars

(* ---------------------------- query router ---------------------------- *)

\* min(hits / 3.0, 1.0), in thirds
keyword_score(hits) == Min(hits, 3)

\* results[0].score if results else 0.0, in tenths
retrieval_score(results) == IF results = <<>> THEN 0 ELSE results[1].score

\* keyword_score * 0.4 + retrieval_score * 0.6, times 150
final_score(hits, results) == 20 * keyword_score(hits) + 9 * retrieval_score(results)

\* max(final_scores.values())
MaxOf(f) == CHOOSE x \in {f[p] : p \in DOMAIN f} : \A q \in DOMAIN f : f[q] <= x

\* an order that puts KB before SCRIPT
KBFirstOrder == <<"KB", "SCRIPT", "TICKET">>

\* tiebreaker_order, line 90
tiebreaker_order == <<"SCRIPT", "KB", "TICKET">>

\* the loop of lines 91-96: the first type of the order that has the maximum
RECURSIVE FirstAtMax(_, _, _, _)
FirstAtMax(order, i, final_scores, max_score) ==
    IF i > Len(order) THEN "None"
    ELSE IF final_scores[order[i]] = max_score THEN order[i]
    ELSE FirstAtMax(order, i + 1, final_scores, max_score)

\* classify_query, lines 57-104, once the keyword hits are counted and
\* retrieve_by_partitions has returned partition_results
classify(hits, partition_results) ==
    LET final_scores == [p \in DocTypes |-> final_score(hits[p], partition_results[p])]
    IN  [predicted_type |-> FirstAtMax(tiebreaker_order, 1, final_scores,
                                       MaxOf(final_scores)),
         final_scores |-> final_scores]

\* the keyword signals of each partition found in the query texts
KeywordHits(text) ==
    IF text = "q1" THEN [KB |-> 1, SCRIPT |-> 0, TICKET |-> 0]
    ELSE [KB |-> 0, SCRIPT |-> 0, TICKET |-> 0]

\* retrieve_by_partitions(query, top_k_per), once the query vector is known
retrieve_by_partitions(st, db, text, top_k_per) ==
    [p \in DocTypes |-> RetrieveResults(st, db, text, top_k_per, {p}, {})]

\* classify_query on a store
classify_query(st, db, text) ==
    classify(KeywordHits(text), retrieve_by_partitions(st, db, text, 1))

\* route_and_retrieve, when none of its calls raises
route_and_retrieve(st, db, text, top_k) ==
    LET predicted_type == classify_query(st, db, text).predicted_type
    IN  [predicted_type |-> predicted_type,
         primary_results |-> RetrieveResults(st, db, text, top_k, {predicted_type}, {}),
         secondary_results |->
             [p \in DocTypes \ {predicted_type} |->
                 RetrieveResults(st, db, text, 2, {p}, {})]]

\* what route_and_retrieve raises, if anything: the first error of its
\* retrieve_by_partitions and retrieve calls, which name every partition
RouteRaises(st, provider_ok) ==
    IF ~provider_ok THEN "ProviderFailure"
    ELSE RetrieveRaises(st, DocTypes, TRUE)

\* the top-1 similarities a partition can answer with, in tenths
TopScores == {-2, 0, 7}

\* what retrieve_by_partitions(query, top_k_per=1) can hold for one partition
TopOne == {<<>>} \cup {<<[score |-> x]>> : x \in TopScores}

\* classify_query applied to the inputs on record
ApplyClassify ==
    /\ call.fn = "classify_query"
    /\ call.output = {}
    /\ call' = [call EXCEPT !.output =
                   {classify(call.input.hits, call.input.partition_results)}]
    /\ UNCHANGED <<vs, chroma, lastOp, proto, thr, qc>>
    /\ UNCHANGED demo

InitClassify ==
    /\ vs = FreshStore
    /\ chroma = [p \in DocTypes |-> NoCollection]
    /\ lastOp = Op("init", {}, "none")
    /\ proto = NoProto
    /\ thr = NoThreads
    /\ qc = FreshQueryCache
    /\ \E hits \in [DocTypes -> 0..MaxHits], partition_results \in [DocTypes -> TopOne] :
          call = [fn |-> "classify_query",
                  input |-> [hits |-> hits, partition_results |-> partition_results],
                  output |-> {}]
    /\ demo = NoDemo

SpecClassify == InitClassify /\ [][ApplyClassify]_vars

(* -------------------------- emerging issues --------------------------- *)

\* the (category, module) pairs of the tickets
Pairs == {<<"c1", "m1">>, <<"c1", "m2">>, <<"c2", "m1">>}

\* key = (gap.category, gap.module)
KeyOf(r) == <<r.category, r.module>>

\* gaps = [r for r in gap_results if r.is_gap]
GapsOf(gap_results) == SelectSeq(gap_results, LAMBDA r : r.is_gap)

\* the keys of clusters, in the order the loop of lines 147-149 inserts them
RECURSIVE ClusterKeys(_, _, _)
ClusterKeys(gaps, i, seen) ==
    IF i > Len(gaps) THEN <<>>
    ELSE IF KeyOf(gaps[i]) \in seen THEN ClusterKeys(gaps, i + 1, seen)
    ELSE <<KeyOf(gaps[i])>> \o ClusterKeys(gaps, i + 1, seen \cup {KeyOf(gaps[i])})

\* clusters[key]
ClusterGaps(gaps, key) == SelectSeq(gaps, LAMBDA g : KeyOf(g) = key)

\* the loop of lines 152-166 (avg_similarity and sample_resolution are not
\* modelled: nothing reads them)
RECURSIVE BuildIssues(_, _, _, _)
BuildIssues(gaps, keys, i, min_cluster_size) ==
    IF i > Len(keys) THEN <<>>
    ELSE LET cluster_gaps == ClusterGaps(gaps, keys[i])
         IN  (IF Len(cluster_gaps) >= min_cluster_size
              THEN <<[category |-> keys[i][1],
                      module |-> keys[i][2],
                      ticket_count |-> Len(cluster_gaps),
                      ticket_numbers |-> [j \in 1..Len(cluster_gaps) |->
                                             cluster_gaps[j].ticket_number]]>>
              ELSE <<>>)
             \o BuildIssues(gaps, keys, i + 1, min_cluster_size)

\* the issues as appended, not sorted
Unsorted(issues) == issues

\* the issues without the one at position i
WithoutAt(issues, i) ==
    [j \in 1..(Len(issues) - 1) |-> IF j < i THEN issues[j] ELSE issues[j + 1]]

\* emerging_issues.sort(key=ticket_count, reverse=True): descending, and
\* stable also when reversed
RECURSIVE SortByCount(_)
SortByCount(issues) ==
    IF issues = <<>> THEN <<>>
    ELSE LET i == CHOOSE i \in 1..Len(issues) :
                      /\ \A j \in 1..Len(issues) :
                            issues[j].ticket_count <= issues[i].ticket_count
                      /\ \A j \in 1..(i - 1) :
                            issues[j].ticket_count < issues[i].ticket_count
         IN  <<issues[i]>> \o SortByCount(WithoutAt(issues, i))

\* GapDetector.detect_emerging_issues
detect_emerging_issues(gap_results, min_cluster_size) ==
    LET gaps == GapsOf(gap_results)
    IN  SortByCount(BuildIssues(gaps, ClusterKeys(gaps, 1, {}), 1, min_cluster_size))

\* detect_emerging_issues applied to the inputs on record
ApplyEmerging ==
    /\ call.fn = "detect_emerging_issues"
    /\ call.output = {}
    /\ call' = [call EXCEPT !.output =
                   {detect_emerging_issues(call.input.gap_results,
                                           call.input.min_cluster_size)}]
    /\ UNCHANGED <<vs, chroma, lastOp, proto, thr, qc>>
    /\ UNCHANGED demo

\* the results of a scan, each ticket once (its number is its position), any
\* of them a gap, with any pair; the callers pass a positive min_cluster_size
InitEmerging ==
    /\ vs = FreshStore
    /\ chroma = [p \in DocTypes |-> NoCollection]
    /\ lastOp = Op("init", {}, "none")
    /\ proto = NoProto
    /\ thr = NoThreads
    /\ qc = FreshQueryCache
    /\ \E n \in 0..MaxResults, min_cluster_size \in 1..MaxClusterSize :
          \E is_gap \in [1..n -> BOOLEAN], pair \in [1..n -> Pairs] :
              call = [fn |-> "detect_emerging_issues",
                      input |-> [gap_results |->
                                    [i \in 1..n |-> [ticket_number |-> i,
                                                     is_gap |-> is_gap[i],
                                                     category |-> pair[i][1],
                                                     module |-> pair[i][2]]],
                                 min_cluster_size |-> min_cluster_size],
                      output |-> {}]
    /\ demo = NoDemo

SpecEmerging == InitEmerging /\ [][ApplyEmerging]_vars

(* ---------------------------- fingerprint ----------------------------- *)

\* the search_text a document may have: "a" is 200 characters long, "a_tail"
\* is longer and starts with the characters of "a"
Contents == {"a", "a_tail", "b"}

\* search_text[:200], line 174
Prefix(search_text) == IF search_text = "a_tail" THEN "a" ELSE search_text

\* the documents of the KB partition a caller may pass to build_index: each
\* doc_id at most once, in any order, with any content
DocLists ==
    LET ids == {d \in DocIds : doc_type(d) = "KB"}
    IN  {l \in UNION {[1..n -> [doc_id : ids, search_text : Contents]] :
                          n \in 1..MaxDocs} :
            \A i, j \in 1..Len(l) : l[i].doc_id = l[j].doc_id => i = j}

\* sorted(documents, key=lambda d: d.doc_id): ascending, stable; the order
\* of the doc_ids is that of TiePos
RECURSIVE SortByDocId(_)
SortByDocId(documents) ==
    IF documents = <<>> THEN <<>>
    ELSE LET i == CHOOSE i \in 1..Len(documents) :
                      \A j \in 1..Len(documents) :
                          \/ TiePos(documents[i].doc_id) < TiePos(documents[j].doc_id)
                          \/ /\ TiePos(documents[i].doc_id) = TiePos(documents[j].doc_id)
                             /\ i <= j
         IN  <<documents[i]>> \o SortByDocId(WithoutAt(documents, i))

\* _compute_fingerprint on documents with their content: the list of
\* (doc_id, search_text[:200]) pairs of line 174; the md5 digest stands for
\* the payload it is computed from
ComputeFingerprint(documents) ==
    [i \in 1..Len(documents) |->
        <<SortByDocId(documents)[i].doc_id,
          Prefix(SortByDocId(documents)[i].search_text)>>]

\* what the persisted collection was embedded from
ContentOf(documents) ==
    {<<documents[i].doc_id, documents[i].search_text>> : i \in 1..Len(documents)}

\* no collection in the persist directory
NoStored == [exists |-> FALSE, fp |-> <<>>, count |-> 0, embedded |-> {}]

\* _build_collection on a persisted collection: line 189 loads it, else it is
\* deleted, created with the new fingerprint and filled
BuildCollection(collection, documents, provider_ok) ==
    LET fingerprint == ComputeFingerprint(documents)
    IN  IF /\ collection.exists
           /\ collection.fp = fingerprint
           /\ collection.count = Len(documents)
        THEN [collection |-> collection, loaded |-> TRUE]
        ELSE IF provider_ok
        THEN [collection |-> [exists |-> TRUE, fp |-> fingerprint,
                              count |-> Len(documents),
                              embedded |-> ContentOf(documents)],
              loaded |-> FALSE]
        ELSE [collection |-> [exists |-> TRUE, fp |-> fingerprint,
                              count |-> 0, embedded |-> {}],
              loaded |-> FALSE]

\* a process builds the KB partition from the documents it was given
ApplyBuildCollection ==
    /\ call.fn = "_build_collection"
    /\ \E documents \in DocLists, provider_ok \in BOOLEAN :
          \E before \in {r.collection : r \in call.output} :
              call' = [fn |-> "_build_collection",
                       input |-> [collection |-> before, documents |-> documents],
                       output |-> {BuildCollection(before, documents, provider_ok)}]
    /\ UNCHANGED <<vs, chroma, lastOp, proto, thr, qc>>
    /\ UNCHANGED demo

\* an empty persist directory
InitFingerprint ==
    /\ vs = FreshStore
    /\ chroma = [p \in DocTypes |-> NoCollection]
    /\ lastOp = Op("init", {}, "none")
    /\ proto = NoProto
    /\ thr = NoThreads
    /\ qc = FreshQueryCache
    /\ call = [fn |-> "_build_collection",
               input |-> [collection |-> NoStored, documents |-> <<>>],
               output |-> {[collection |-> NoStored, loaded |-> FALSE]}]
    /\ demo = NoDemo

SpecFingerprint == InitFingerprint /\ [][ApplyBuildCollection]_vars

(* --------------------------- demo pipeline ---------------------------- *)

\* get_synthetic_tickets(), in the order of the list
SyntheticOrder == <<"CS-DEMO-001", "CS-DEMO-002">>

\* step3_detect_emerging_issue: min_cluster_size=3
DemoClusterSize == 3

\* the order of the draft ids: the clock of generate_draft does not go back
DraftNo(draft_id) == IF draft_id = "DRAFT-1" THEN 1 ELSE 2

\* the documents of the data store at boot
DemoCorpus == DocIds \cup {"CS-0"}

\* boot(): vs.build_index(ds.documents)
DemoBooted == build_index(FreshStore, [p \in DocTypes |-> NoCollection], DemoCorpus, "none")

\* DemoPhase, in the order of the enum
Phases == <<"ready", "tickets_injected", "gaps_detected", "emerging_flagged",
            "draft_generated", "draft_approved", "demo_complete">>

PhaseNo(phase) == CHOOSE i \in 1..Len(Phases) : Phases[i] = phase

\* DemoPipeline after __init__ at startup. The fields of DemoState (events_log
\* and started_at are left out); ds_documents: the doc_ids of ds.documents;
\* aliased: ds.documents and vs.documents are one list, as build_index left
\* them; registered: the synthetic tickets in ds.ticket_by_number; drafts:
\* the ids in gen.drafts. Not fields of the program: next is the call that
\* continues a cycle made in order since the last reset (7: reset, 0: the
\* order was left or a call raised), strict says that no call ever left the
\* order, approved_ever holds every article a step 5 indexed
FreshDemo ==
    [phase |-> "ready", injected_tickets |-> <<>>, gap_results |-> <<>>,
     emerging_issues |-> <<>>, generated_draft_id |-> "None",
     approved_doc_id |-> "None",
     ds_documents |-> DemoCorpus, aliased |-> TRUE, registered |-> {},
     drafts |-> {}, next |-> 7, strict |-> TRUE, approved_ever |-> {}]

\* the history fields after call number k of the cycle
Followed(k, raised) ==
    LET ok == demo.next = k /\ raised = "none"
    IN  [next |-> IF ok THEN k + 1 ELSE 0, strict |-> demo.strict /\ ok]

\* the first injected ticket at which a loop over check_ticket stops: one
\* that is not in ticket_by_number, or the one the provider fails on (0: none)
StopAt(fail_at) ==
    LET bad == {i \in 1..Len(demo.injected_tickets) :
                   \/ demo.injected_tickets[i] \notin demo.registered
                   \/ i = fail_at}
    IN  IF bad = {} THEN 0 ELSE CHOOSE i \in bad : \A j \in bad : i <= j

StopRaises(stop) ==
    IF stop = 0 THEN "none"
    ELSE IF demo.injected_tickets[stop] \notin demo.registered THEN "ValueError"
    ELSE "ProviderFailure"

\* DemoState.reset without the re-initialisation of injected_tickets
ResetKeepsTickets(st) ==
    [st EXCEPT !.phase = "ready", !.gap_results = <<>>, !.emerging_issues = <<>>,
               !.generated_draft_id = "None", !.approved_doc_id = "None"]

\* DemoState.reset: self.__init__()
state_reset(st) ==
    [st EXCEPT !.phase = "ready", !.injected_tickets = <<>>,
               !.gap_results = <<>>, !.emerging_issues = <<>>,
               !.generated_draft_id = "None", !.approved_doc_id = "None"]

\* DemoPipeline.reset
Reset ==
    /\ Idle
    /\ LET synthetic_ticket_ids ==
               SyntheticTickets
                   \cup (IF demo.approved_doc_id # "None"
                         THEN {demo.approved_doc_id} ELSE {})
           to_remove == synthetic_ticket_ids \cap demo.ds_documents
       IN  /\ vs' = IF to_remove # {} THEN remove_documents(vs, to_remove) ELSE vs
           /\ demo' = [state_reset(demo) EXCEPT
                          !.aliased = demo.aliased /\ to_remove = {},
                          !.registered = {},
                          !.next = 1,
                          !.strict = demo.strict /\ demo.next = 7]
    /\ lastOp' = Op("reset", {}, "none")
    /\ UNCHANGED <<chroma, proto, thr, qc, call>>

\* DemoPipeline.step1_inject_tickets
Step1Inject ==
    /\ Idle
    /\ Len(demo.injected_tickets) + Len(SyntheticOrder) <= MaxInjected
    /\ \A d \in SyntheticTickets : vs.documents[d] <= MaxDup
    /\ \E run \in AddRuns(vs, SyntheticTickets) :
          /\ run[1] \notin run[2]
          /\ LET r == add_documents(vs, chroma, SyntheticTickets, run[1], run[2])
                 h == Followed(1, r.raised)
             IN  /\ vs' = r.vs
                 /\ chroma' = r.chroma
                 /\ lastOp' = Op("inject", r.embedded, r.raised)
                 /\ demo' = IF r.raised # "none"
                            THEN [demo EXCEPT
                                     !.injected_tickets = @ \o SyntheticOrder,
                                     !.next = h.next, !.strict = h.strict]
                            ELSE [demo EXCEPT
                                     !.injected_tickets = @ \o SyntheticOrder,
                                     !.ds_documents =
                                         IF demo.aliased THEN @ \cup SyntheticTickets
                                         ELSE @,
                                     !.registered = SyntheticTickets,
                                     !.phase = "tickets_injected",
                                     !.next = h.next, !.strict = h.strict]
    /\ UNCHANGED <<proto, thr, qc, call>>

\* the entry step2_detect_gaps appends for a ticket
GapEntry(t) ==
    LET result == check_ticket(vs, chroma, t, 6)
    IN  [ticket_number |-> t, is_gap |-> result.is_gap,
         similarity |-> result.resolution_similarity,
         best_match |-> result.best_matching_kb_id]

\* DemoPipeline.step2_detect_gaps; fail_at: the ticket at whose check_ticket
\* the provider fails
Step2DetectGaps ==
    /\ Idle
    /\ Len(demo.gap_results) + Len(demo.injected_tickets) <= MaxInjected
    /\ \E fail_at \in 0..Len(demo.injected_tickets) :
          LET stop == StopAt(fail_at)
              n == IF stop = 0 THEN Len(demo.injected_tickets) ELSE stop - 1
              h == Followed(2, StopRaises(stop))
          IN  /\ demo' = [demo EXCEPT
                             !.gap_results =
                                 @ \o [i \in 1..n |-> GapEntry(demo.injected_tickets[i])],
                             !.phase = IF stop = 0 THEN "gaps_detected" ELSE @,
                             !.next = h.next, !.strict = h.strict]
              /\ lastOp' = Op("detect_gaps", {}, StopRaises(stop))
    /\ UNCHANGED <<vs, chroma, proto, thr, qc, call>>

\* the GapDetectionResult of a synthetic ticket, as detect_emerging_issues
\* reads it: every synthetic ticket has the same category and module
DemoResult(t) ==
    [ticket_number |-> t, is_gap |-> check_ticket(vs, chroma, t, 6).is_gap,
     category |-> "c1", module |-> "m1"]

\* DemoPipeline.step3_detect_emerging_issue
Step3DetectEmerging ==
    /\ Idle
    /\ \E fail_at \in 0..Len(demo.injected_tickets) :
          LET stop == StopAt(fail_at)
              h == Followed(3, StopRaises(stop))
              gap_results_for_detection ==
                  [i \in 1..Len(demo.injected_tickets) |->
                      DemoResult(demo.injected_tickets[i])]
          IN  /\ demo' = IF stop # 0
                         THEN [demo EXCEPT !.next = h.next, !.strict = h.strict]
                         ELSE [demo EXCEPT
                                  !.emerging_issues =
                                      detect_emerging_issues(gap_results_for_detection,
                                                             DemoClusterSize),
                                  !.phase = "emerging_flagged",
                                  !.next = h.next, !.strict = h.strict]
              /\ lastOp' = Op("detect_emerging", {}, StopRaises(stop))
    /\ UNCHANGED <<vs, chroma, proto, thr, qc, call>>

\* DemoPipeline.step4_generate_kb_draft
Step4GenerateDraft ==
    /\ Idle
    /\ LET raised == IF demo.injected_tickets = <<>> THEN "IndexError"
                     ELSE IF demo.injected_tickets[1] \notin demo.registered
                          THEN "ValueError"
                     ELSE "none"
           h == Followed(4, raised)
       IN  /\ lastOp' = Op("generate_draft", {}, raised)
           /\ IF raised # "none"
              THEN demo' = [demo EXCEPT !.next = h.next, !.strict = h.strict]
              ELSE \E draft_id \in DraftIds :
                      /\ \A x \in demo.drafts : DraftNo(x) <= DraftNo(draft_id)
                      /\ demo' = [demo EXCEPT
                                     !.drafts = @ \cup {draft_id},
                                     !.generated_draft_id = draft_id,
                                     !.phase = "draft_generated",
                                     !.next = h.next, !.strict = h.strict]
    /\ UNCHANGED <<vs, chroma, proto, thr, qc, call>>

\* DemoPipeline.step5_approve_and_index
Step5Approve ==
    /\ Idle
    /\ IF demo.generated_draft_id \notin demo.drafts
       THEN /\ demo' = [demo EXCEPT !.next = Followed(5, "none").next,
                                    !.strict = Followed(5, "none").strict]
            /\ lastOp' = Op("approve", {}, "none")
            /\ UNCHANGED <<vs, chroma>>
       ELSE LET doc == ArticleOf(demo.generated_draft_id)
            IN  /\ vs.documents[doc] <= MaxDup
                /\ \E run \in AddRuns(vs, {doc}) :
                      /\ run[1] \notin run[2]
                      /\ LET r == add_documents(vs, chroma, {doc}, run[1], run[2])
                             h == Followed(5, r.raised)
                         IN  /\ vs' = r.vs
                             /\ chroma' = r.chroma
                             /\ lastOp' = Op("approve", r.embedded, r.raised)
                             /\ demo' =
                                   IF r.raised # "none"
                                   THEN [demo EXCEPT !.next = h.next,
                                                     !.strict = h.strict]
                                   ELSE [demo EXCEPT
                                            !.ds_documents =
                                                IF demo.aliased THEN @ \cup {doc}
                                                ELSE @,
                                            !.approved_doc_id = doc,
                                            !.approved_ever = @ \cup {doc},
                                            !.phase = "draft_approved",
                                            !.next = h.next, !.strict = h.strict]
    /\ UNCHANGED <<proto, thr, qc, call>>

\* DemoPipeline.step6_verify_retrieval
Step6Verify ==
    /\ Idle
    /\ \E provider_ok \in BOOLEAN :
          LET raised == RouteRaises(vs, provider_ok)
              h == Followed(6, raised)
          IN  /\ demo' = [demo EXCEPT
                             !.phase = IF raised = "none" THEN "demo_complete" ELSE @,
                             !.next = h.next, !.strict = h.strict]
              /\ lastOp' = Op("verify", {}, raised)
    /\ UNCHANGED <<vs, chroma, proto, thr, qc, call>>

\* the server after startup_event
InitDemo ==
    /\ vs = DemoBooted.vs
    /\ chroma = DemoBooted.chroma
    /\ lastOp = Op("build", DemoBooted.embedded, DemoBooted.raised)
    /\ proto = NoProto
    /\ thr = NoThreads
    /\ qc = FreshQueryCache
    /\ call = NoCall
    /\ demo = FreshDemo

\* the demo endpoints of the server, called in any order
NextDemo ==
    \/ Reset
    \/ Step1Inject
    \/ Step2DetectGaps
    \/ Step3DetectEmerging
    \/ Step4GenerateDraft
    \/ Step5Approve
    \/ Step6Verify

SpecDemo == InitDemo /\ [][NextDemo]_vars

(* ------------------------------ claims -------------------------------- *)

\* the exclude_ids a caller passes
ExcludeChoices == {S \in SUBSET DocIds : Cardinality(S) <= 1}

DocsOfType(docs, p) == {d \in docs : doc_type(d) = p}

IdsOf(results) == {results[i].doc_id : i \in 1..Len(results)}

\* C1: in every state that build, add and remove can reach, no result of
\* retrieve, for any text, top_k, partitions and exclude_ids, holds a doc_id of
\* the exclusion set or of exclude_ids.
C1_ExcludedNeverReturned ==
    \A text \in Texts, top_k \in 1..MaxTopK, doc_types \in SUBSET DocTypes,
       exclude_ids \in ExcludeChoices :
        IdsOf(RetrieveResults(vs, chroma, text, top_k, doc_types, exclude_ids))
            \cap (vs.excluded_ids \cup exclude_ids) = {}

\* a retrieve has returned while an excluded document is still stored in its
\* collection, is nearest to some text, and another document is returned for it
C1_Witness ==
    /\ lastOp.op = "retrieve"
    /\ lastOp.raised = "none"
    /\ \E d \in vs.excluded_ids, text \in Texts :
          LET p == doc_type(d)
          IN  /\ vs.collections[p] = "open"
              /\ d \in chroma[p].ids
              /\ ChromaQuery(chroma[p].ids, text, 1) = <<d>>
              /\ RetrieveResults(vs, chroma, text, 1, {p}, {}) # <<>>

\* the store after remove(ids of S) followed by add(S)
RemoveThenAdd(S) ==
    LET removed == remove_documents(vs, S)
    IN  add_documents(removed, chroma, S, "none",
                      EmbeddedTypes(removed, S \ removed.excluded_ids))

\* C2: for every set S of indexed documents, remove(ids of S) followed by
\* add(S) makes no embedding call and leaves every retrieve result as it was.
C2_RestoreLossless ==
    vs.is_built =>
        \A S \in (SUBSET vs.doc_index) \ {{}} :
            LET after == RemoveThenAdd(S)
            IN  /\ after.embedded = {}
                /\ \A text \in Texts, top_k \in 1..MaxTopK,
                      doc_types \in SUBSET DocTypes, exclude_ids \in ExcludeChoices :
                        RetrieveResults(after.vs, after.chroma, text, top_k,
                                        doc_types, exclude_ids)
                        = RetrieveResults(vs, chroma, text, top_k, doc_types,
                                          exclude_ids)

\* the documents of the named partitions that the index knows and that are
\* not excluded
LiveDocs(st, targets, exclude_ids) ==
    {d \in st.doc_index : doc_type(d) \in targets}
        \ (st.excluded_ids \cup exclude_ids)

\* C5: a retrieve that returns gives results in non-increasing score order,
\* ranked 1..n, at most top_k of them, and fewer than top_k only if fewer than
\* top_k non-excluded documents exist in the named partitions.
C5_TopKContract ==
    \A text \in Texts, top_k \in 1..MaxTopK, doc_types \in SUBSET DocTypes,
       exclude_ids \in ExcludeChoices :
        RetrieveRaises(vs, doc_types, TRUE) = "none" =>
            LET r == RetrieveResults(vs, chroma, text, top_k, doc_types, exclude_ids)
            IN  /\ Len(r) <= top_k
                /\ \A i \in 1..Len(r) : r[i].rank = i
                /\ \A i \in 1..(Len(r) - 1) : r[i].score >= r[i + 1].score
                /\ Len(r) < top_k =>
                      Cardinality(LiveDocs(vs, TargetTypes(vs, doc_types),
                                           exclude_ids)) < top_k

\* the documents stored in the open collections of the named partitions that
\* are not in the exclusion set
StoredCandidates(st, db, targets) ==
    UNION {IF st.collections[p] = "open" THEN db[p].ids ELSE {} : p \in targets}
        \ st.excluded_ids

\* C6: a similarity_to_corpus that returns never names an excluded id; it names
\* a lowest-distance non-excluded document of the named partitions with its
\* similarity, and (0.0, "") when they hold no non-excluded document.
C6_BestNonExcluded ==
    \A text \in Texts, doc_types \in SUBSET DocTypes :
        RetrieveRaises(vs, doc_types, TRUE) = "none" =>
            LET r == SimilarityToCorpus(vs, chroma, text, doc_types)
                cands == StoredCandidates(vs, chroma, TargetTypes(vs, doc_types))
            IN  /\ r.doc_id \notin vs.excluded_ids
                /\ cands = {} => r = [score |-> 0, doc_id |-> ""]
                /\ cands # {} =>
                      /\ r.doc_id \in cands
                      /\ \A d \in cands :
                            CosineDistance(text, r.doc_id) <= CosineDistance(text, d)
                      /\ r.score = 10 - CosineDistance(text, r.doc_id)

\* the documents the step's add_documents appended to the documents list
Appended == {d \in DocIds : vs'.documents[d] > vs.documents[d]}

\* C7: when add returns on a built index, every added document that no
\* collection held has been embedded and stored in the collection of its own
\* partition, open for queries.
C7_NewDocsIndexed ==
    [][(lastOp'.op = "add" /\ lastOp'.raised = "none" /\ vs.is_built) =>
          \A d \in Appended :
              (\A p \in DocTypes : d \notin chroma[p].ids) =>
                  /\ d \in lastOp'.embedded
                  /\ d \in chroma'[doc_type(d)].ids
                  /\ vs'.collections[doc_type(d)] = "open"]_vars

\* C9: build_index(docs) makes no embedding call for a partition whose
\* persisted collection has the fingerprint and the count of the partition's
\* documents, and leaves that collection as it is; when it returns, every
\* other non-empty partition has been embedded anew, and every non-empty
\* partition's open collection holds exactly the ids of its documents.
C9_BuildCacheContract ==
    [][lastOp'.op = "build" =>
          \A p \in DocTypes :
              LET docs_p == DocsOfType(vs'.doc_index, p)
                  hit == /\ chroma[p].exists
                         /\ chroma[p].fp = {<<d, SearchPrefix(d)>> : d \in docs_p}
                         /\ Cardinality(chroma[p].ids) = Cardinality(docs_p)
              IN  docs_p # {} =>
                      /\ hit => /\ chroma'[p] = chroma[p]
                                /\ lastOp'.embedded \cap docs_p = {}
                      /\ lastOp'.raised = "none" =>
                            /\ ~hit => docs_p \subseteq lastOp'.embedded
                            /\ chroma'[p].exists
                            /\ chroma'[p].ids = docs_p
                            /\ vs'.collections[p] = "open"]_vars

\* a build has returned that loaded one partition from the persisted store
\* without an embedding call and embedded another one
C9_Witness ==
    /\ lastOp.op = "build"
    /\ lastOp.raised = "none"
    /\ \E p, q \in DocTypes :
          /\ DocsOfType(vs.doc_index, p) # {}
          /\ DocsOfType(vs.doc_index, p) \cap lastOp.embedded = {}
          /\ DocsOfType(vs.doc_index, q) # {}
          /\ DocsOfType(vs.doc_index, q) \subseteq lastOp.embedded

\* C10: when the provider fails during build_index, every persisted collection
\* is the one that was there before the call, or is gone, or is the complete
\* new index of its partition.
C10_NoPartialIndex ==
    [][(lastOp'.op = "build" /\ lastOp'.raised = "ProviderFailure") =>
          \A p \in DocTypes :
              \/ chroma'[p] = chroma[p]
              \/ ~chroma'[p].exists
              \/ chroma'[p].ids = DocsOfType(vs'.doc_index, p)]_vars

\* C3: when the before/after protocol returns, the documents the index knows
\* and the exclusion set are what they were when it was called, whatever the
\* index held then.
C3_ProtocolRestores ==
    proto.pc = "returned" => IndexState(vs) = proto.pre

\* C4: when the before/after protocol raises after it removed the learned
\* articles, the index is as it was when the protocol was called and no
\* learned article is in the exclusion set that was not there before.
C4_RestoredOnException ==
    (proto.pc = "raised" /\ proto.removed) =>
        /\ IndexState(vs) = proto.pre
        /\ synthetic_kb_ids \cap vs.excluded_ids \subseteq proto.pre.excluded_ids

\* C8: a retrieve that runs while the index is mutated returns what it would
\* return on the index as it was before or as it is after a mutation that
\* overlaps it, never the result of a half-updated index.
C8_QueryAtomic ==
    thr.reader.pc = "done" => thr.reader.results \in thr.reader.atomic

\* C11: for every ticket set, threshold and set of learned KB articles, the
\* scan made with the learned articles removed counts at least as many gaps as
\* the scan made with them present, and no ticket's resolution_similarity is
\* higher without them.
C11_GapsMonotone ==
    (vs.is_built /\ vs.collections["KB"] # "deleted") =>
        \A learned \in SUBSET DocsOfType(DocIds, "KB"), threshold \in Thresholds :
            LET removed == remove_documents(vs, learned)
            IN  /\ total_gaps(scan_all_tickets(removed, chroma, Tickets, threshold))
                      >= total_gaps(scan_all_tickets(vs, chroma, Tickets, threshold))
                /\ \A t \in Tickets :
                      check_ticket(removed, chroma, t, threshold).resolution_similarity
                          <= check_ticket(vs, chroma, t, threshold).resolution_similarity

\* C12: at every point of a run every entry of the in-memory query cache was
\* produced by the active embedding model and every entry of the cache file by
\* the model the file names; a file of another model gives an empty cache at
\* load, and a save replaces the file by the cache of the active model.
C12_OneModelPerCache ==
    /\ \A e \in qc.cache : e.model = qc.embedding_model
    /\ qc.file.exists => \A e \in qc.file.entries : e.model = qc.file.model
    /\ (qc.file.exists /\ qc.file.model = qc.embedding_model) =>
           \A e \in qc.cache \cup qc.file.entries : e.model = qc.embedding_model

\* a store was made under a model other than the one of the cache file, which
\* holds entries, and has since cached a vector of its own
C12_Witness ==
    /\ qc.file.exists
    /\ qc.file.entries # {}
    /\ qc.file.model # qc.embedding_model
    /\ qc.cache # {}

\* C13: in every step that embeds query texts the keys sent to the provider
\* are the truncated texts that the cache did not hold, and none of them was
\* sent to the provider before by this store.
C13_AtMostOneCall ==
    [][call'.fn = "_embed_query" =>
          /\ call'.output = {Truncate(t) : t \in call'.input} \ Keys(qc.cache)
          /\ call'.output \cap qc.asked = {}]_vars

\* C13 as amended: in every step that embeds query texts the keys sent to the
\* provider are the truncated texts that the cache did not hold, and none of
\* them is a key the provider has answered before for this store; a key the
\* provider answers is cached from then on.
C13_AtMostOneAnswer ==
    [][/\ call'.fn = "_embed_query" =>
              /\ call'.output = {Truncate(t) : t \in call'.input} \ Keys(qc.cache)
              /\ call'.output \cap qc.answered = {}
              /\ lastOp'.raised = "none" =>
                     {Truncate(t) : t \in call'.input} \subseteq Keys(qc'.cache)
       /\ lastOp'.op # "init" => qc.cache \subseteq qc'.cache]_vars

\* the text longer than the key was answered from the cache, which holds the
\* vector the provider returned for its first characters
C13_Witness ==
    /\ call.fn = "_embed_query"
    /\ call.input = {"q1_tail"}
    /\ call.output = {}
    /\ lastOp.raised = "none"
    /\ "q1" \in qc.answered

\* 150 times the final score the claim gives partition p for the inputs on
\* record: 0.4 * min(hits/3, 1) + 0.6 * similarity, 0.0 without a match
C14_Final(p) ==
    LET hits == call.input.hits[p]
        top == call.input.partition_results[p]
    IN  20 * (IF hits >= 3 THEN 3 ELSE hits) + 9 * (IF Len(top) = 0 THEN 0 ELSE top[1].score)

\* C14: for every combination of hit counts and top-1 similarities the
\* predicted partition has the maximum final score, and every partition before
\* it in the order SCRIPT, KB, TICKET has a strictly lower one.
C14_ArgmaxWithPriority ==
    (call.fn = "classify_query" /\ call.output # {}) =>
        \A r \in call.output :
            /\ r.predicted_type \in DocTypes
            /\ \A p \in DocTypes :
                  /\ r.final_scores[p] = C14_Final(p)
                  /\ C14_Final(p) <= C14_Final(r.predicted_type)
            /\ r.predicted_type = "KB" => C14_Final("SCRIPT") < C14_Final("KB")
            /\ r.predicted_type = "TICKET" =>
                  /\ C14_Final("SCRIPT") < C14_Final("TICKET")
                  /\ C14_Final("KB") < C14_Final("TICKET")

\* SCRIPT and KB share the maximum, above TICKET, with more than three hits
\* each and a KB match only; SCRIPT is returned
C14_Witness ==
    /\ call.fn = "classify_query"
    /\ call.input.hits = [KB |-> 4, SCRIPT |-> 4, TICKET |-> 3]
    /\ call.input.partition_results["SCRIPT"] = <<>>
    /\ call.input.partition_results["KB"] = <<[score |-> 0]>>
    /\ \E r \in call.output : r.predicted_type = "SCRIPT"

\* C15: on a built index, with the provider answering, route_and_retrieve
\* does not raise for any query and top_k; its primary results are at most
\* top_k results of the predicted partition; its secondary results are keyed
\* by the two other partitions, and each list holds results of its partition
\* only, 2 of them unless the partition has fewer than 2 non-excluded documents.
C15_RouteContract ==
    vs.is_built =>
        \A text \in Texts, top_k \in 1..MaxTopK :
            /\ RouteRaises(vs, TRUE) = "none"
            /\ LET r == route_and_retrieve(vs, chroma, text, top_k)
               IN  /\ Len(r.primary_results) <= top_k
                   /\ \A i \in 1..Len(r.primary_results) :
                         r.primary_results[i].doc_type = r.predicted_type
                   /\ DOMAIN r.secondary_results = DocTypes \ {r.predicted_type}
                   /\ \A p \in DOMAIN r.secondary_results :
                         LET l == r.secondary_results[p]
                         IN  /\ Len(l) <= 2
                             /\ \A i \in 1..Len(l) : l[i].doc_type = p
                             /\ Len(l) < 2 =>
                                   Len(l) = Cardinality(LiveDocs(vs, {p}, {}))

\* the store and the persisted collections without the SCRIPT and TICKET
\* partitions and their documents
KBOnlyStore ==
    [vs EXCEPT !.collections = [p \in DocTypes |-> IF p = "KB" THEN @[p] ELSE "none"],
               !.doc_index = DocsOfType(@, "KB"),
               !.excluded_ids = DocsOfType(@, "KB")]

KBOnlyChroma == [p \in DocTypes |-> IF p = "KB" THEN chroma[p] ELSE NoCollection]

\* the best similarity of a text against a set of documents, 0.0 for none
BestSimilarity(text, docs) ==
    IF docs = {} THEN 0
    ELSE 10 - CosineDistance(text,
                  CHOOSE d \in docs : \A e \in docs :
                      CosineDistance(text, d) <= CosineDistance(text, e))

\* C16: a check_ticket that returns has is_gap true exactly when the best
\* similarity of the ticket's resolution text against the non-excluded KB
\* documents of the index is below the threshold, and returns the same record
\* on the store stripped of its SCRIPT and TICKET partitions.
C16_GapIffBelowThreshold ==
    RetrieveRaises(vs, {"KB"}, TRUE) = "none" =>
        \A t \in Tickets, threshold \in Thresholds :
            LET r == check_ticket(vs, chroma, t, threshold)
            IN  /\ r.is_gap <=>
                      BestSimilarity(ResolutionText(t), LiveDocs(vs, {"KB"}, {}))
                          < threshold
                /\ r = check_ticket(KBOnlyStore, KBOnlyChroma, t, threshold)

\* C17: for every set of known tickets a scan_all_tickets that returns gives
\* one check_ticket result per ticket and no other, in non-decreasing order
\* of resolution_similarity; for no ticket it gives the empty list.
C17_ScanSorted ==
    RetrieveRaises(vs, {"KB"}, TRUE) = "none" =>
        \A tickets \in SUBSET Tickets, threshold \in Thresholds :
            LET r == scan_all_tickets(vs, chroma, tickets, threshold)
            IN  /\ Len(r) = Cardinality(tickets)
                /\ {r[i].ticket_number : i \in 1..Len(r)} = tickets
                /\ \A i \in 1..Len(r) :
                      r[i] = check_ticket(vs, chroma, r[i].ticket_number, threshold)
                /\ \A i \in 1..(Len(r) - 1) :
                      r[i].resolution_similarity <= r[i + 1].resolution_similarity
                /\ tickets = {} => r = <<>>

\* a scan of both tickets puts CS-2, the later one of the data store, first:
\* its resolution is covered worse than that of CS-1
C17_Witness ==
    /\ RetrieveRaises(vs, {"KB"}, TRUE) = "none"
    /\ LET r == scan_all_tickets(vs, chroma, Tickets, 6)
       IN  /\ r[1].ticket_number = "CS-2"
           /\ r[1].resolution_similarity < r[2].resolution_similarity
           /\ r[1].is_gap /\ ~r[2].is_gap

\* the ticket numbers of the gap results on record that have the pair
C18_GapTickets(pair) ==
    {call.input.gap_results[i].ticket_number :
        i \in {j \in 1..Len(call.input.gap_results) :
                  /\ call.input.gap_results[j].is_gap
                  /\ call.input.gap_results[j].category = pair[1]
                  /\ call.input.gap_results[j].module = pair[2]}}

\* the least number of a non-empty set of ticket numbers
C18_First(S) == CHOOSE x \in S : \A y \in S : x <= y

\* C18: for every list of results and every min_cluster_size >= 1 the output
\* has one record for each pair with at least min_cluster_size gap results and
\* none for any other pair; a record lists the gap tickets of its pair and no
\* other, each once, and counts them; the records are in descending order of
\* ticket_count, and of two records with equal counts the one whose pair has
\* the earlier first gap result comes first.
C18_ClustersContract ==
    (call.fn = "detect_emerging_issues" /\ call.output # {}) =>
        \A out \in call.output :
            /\ \A pair \in Pairs :
                  Cardinality({i \in 1..Len(out) :
                                  <<out[i].category, out[i].module>> = pair})
                      = IF Cardinality(C18_GapTickets(pair)) >= call.input.min_cluster_size
                        THEN 1 ELSE 0
            /\ \A i \in 1..Len(out) :
                  LET pair == <<out[i].category, out[i].module>>
                  IN  /\ pair \in Pairs
                      /\ Range(out[i].ticket_numbers) = C18_GapTickets(pair)
                      /\ Len(out[i].ticket_numbers) = Cardinality(C18_GapTickets(pair))
                      /\ out[i].ticket_count = Len(out[i].ticket_numbers)
                      /\ out[i].ticket_count >= call.input.min_cluster_size
            /\ \A i \in 1..(Len(out) - 1) :
                  \/ out[i].ticket_count > out[i + 1].ticket_count
                  \/ /\ out[i].ticket_count = out[i + 1].ticket_count
                     /\ C18_First(Range(out[i].ticket_numbers))
                            < C18_First(Range(out[i + 1].ticket_numbers))

\* three records: the pair of the last two gap results first with both of
\* them, then the pairs of tickets 1 and 2 in that order
C18_Witness ==
    /\ call.fn = "detect_emerging_issues"
    /\ \E out \in call.output :
          /\ Len(out) = 3
          /\ out[1].ticket_numbers = <<3, 4>>
          /\ out[2].ticket_numbers = <<1>>
          /\ out[3].ticket_numbers = <<2>>

\* the query methods of the store and of the router
QueryOps == {"retrieve", "similarity_to_corpus", "retrieve_by_partitions",
             "classify_query", "route_and_retrieve"}

\* C19: every call of a query method made while no build has completed
\* raises the not-built error.
C19_NotBuiltError ==
    [][(~vs.is_built /\ lastOp'.op \in QueryOps) =>
           lastOp'.raised = "IndexNotBuilt"]_vars

\* C20: get_document answers for every id, with the document when the id is
\* in the document map and with None otherwise; after a remove it answers
\* None for every removed id, and an id it answers None for gets a document
\* again only by an add that appends it; a check_ticket of a ticket that the
\* data store does not hold raises and leaves the store, the persisted
\* collections and the query cache as they were.
C20_AbsentAndUnknown ==
    [][/\ \A d \in DocIds :
              /\ get_document(vs', d) = IF d \in vs'.doc_index THEN d ELSE "None"
              /\ (get_document(vs, d) = "None" /\ get_document(vs', d) # "None") =>
                     (lastOp'.op = "add" /\ d \in Appended)
       /\ lastOp'.op = "remove" =>
              \A doc_ids \in SUBSET DocIds :
                  vs' = remove_documents(vs, doc_ids) =>
                      \A d \in doc_ids : get_document(vs', d) = "None"
       /\ (lastOp'.op = "check_ticket" /\ call'.input \cap proto.tickets = {}) =>
              /\ lastOp'.raised = "ValueError"
              /\ vs' = vs /\ chroma' = chroma /\ qc' = qc]_vars

\* a check_ticket of the unknown CS-2 has raised on a store that has a vector
\* cached and answers None for the removed K1
C20_Witness ==
    /\ lastOp = Op("check_ticket", {}, "ValueError")
    /\ call.input = {"CS-2"}
    /\ "CS-2" \notin proto.tickets
    /\ qc.cache # {}
    /\ "K1" \in vs.excluded_ids
    /\ get_document(vs, "K1") = "None"

\* C21: fewer than 100 entries of the in-memory cache are missing from the
\* cache file at any time, and when flush_query_cache returns every entry of
\* the in-memory cache is in the cache file.
C21_BatchedFlush ==
    /\ [](Cardinality(qc.cache \ Persisted(qc)) < FlushEvery)
    /\ [][lastOp'.op = "flush_query_cache" => qc'.cache \subseteq Persisted(qc')]_vars

\* C22: in every state where the calls return, every score of a retrieve
\* result, every resolution_similarity of check_ticket and every final score
\* of classify_query lies in [0, 1] (0..10 in tenths, 0..150 for the final
\* scores, which are kept times 150).
C22_SimilarityRange ==
    \A text \in Texts :
        /\ \A top_k \in 1..MaxTopK, doc_types \in SUBSET DocTypes :
              RetrieveRaises(vs, doc_types, TRUE) = "none" =>
                  LET r == RetrieveResults(vs, chroma, text, top_k, doc_types, {})
                  IN  \A i \in 1..Len(r) : r[i].score \in 0..10
        /\ RetrieveRaises(vs, {"KB"}, TRUE) = "none" =>
              \A t \in Tickets :
                  check_ticket(vs, chroma, t, 6).resolution_similarity \in 0..10
        /\ RouteRaises(vs, TRUE) = "none" =>
              \A p \in DocTypes :
                  classify_query(vs, chroma, text).final_scores[p] \in 0..150

\* C23: in a run of the demo steps made in order from a reset, each step
\* that returns moves the phase to the next phase of the enum; reset leaves
\* phase ready and no injected ticket; inject leaves exactly the synthetic
\* ticket numbers, once each; detect-gaps leaves one gap result per injected
\* ticket, in their order.
C23_InOrder ==
    [][/\ lastOp'.op = "reset" =>
             demo'.phase = "ready" /\ demo'.injected_tickets = <<>>
       /\ \A k \in 1..6 :
             demo.next = k /\ demo'.next = k + 1 =>
                 /\ demo.phase = Phases[k]
                 /\ demo'.phase = Phases[k + 1]
       /\ demo.next = 1 /\ demo'.next = 2 =>
             /\ Len(demo'.injected_tickets) = Cardinality(SyntheticTickets)
             /\ Range(demo'.injected_tickets) = SyntheticTickets
       /\ demo.next = 2 /\ demo'.next = 3 =>
             /\ Len(demo'.gap_results) = Len(demo'.injected_tickets)
             /\ \A i \in 1..Len(demo'.gap_results) :
                   demo'.gap_results[i].ticket_number = demo'.injected_tickets[i]
      ]_vars

\* a second cycle made in order has reached demo_complete
C23_Witness ==
    /\ demo.phase = "demo_complete"
    /\ demo.next = 7
    /\ lastOp = Op("verify", {}, "none")
    /\ ~demo.aliased
    /\ Len(demo.gap_results) = 2
    /\ demo.approved_doc_id # "None"

\* C24: when reset returns after any number of full cycles made in order,
\* no synthetic ticket and no article approved in a cycle is returned by
\* get_document or by a query.
C24_ResetRemovesAll ==
    [][lastOp'.op = "reset" /\ demo.strict /\ demo.next = 7 =>
           \A d \in SyntheticTickets \cup demo.approved_ever :
               /\ get_document(vs', d) = "None"
               /\ \A text \in Texts, top_k \in 1..MaxTopK,
                     doc_types \in SUBSET DocTypes :
                     LET r == RetrieveResults(vs', chroma', text, top_k,
                                              doc_types, {})
                     IN  \A i \in 1..Len(r) : r[i].doc_id # d
      ]_vars

\* C30: in every state of the demo pipeline, phase draft_generated or later
\* comes with a generated_draft_id, phase draft_approved or demo_complete
\* comes with an approved_doc_id whose article is in the index, and no call
\* but reset moves the phase backwards.
C30_PhaseConsistent ==
    /\ [](PhaseNo(demo.phase) >= 5 => demo.generated_draft_id # "None")
    /\ [](PhaseNo(demo.phase) >= 6 =>
              /\ demo.approved_doc_id # "None"
              /\ get_document(vs, demo.approved_doc_id) # "None")
    /\ [][lastOp'.op # "reset" => PhaseNo(demo'.phase) >= PhaseNo(demo.phase)]_vars

\* C25: for the documents of a build and any other document list, a
\* different set of doc_ids or a different search_text of a document gives a
\* different fingerprint, the same documents in another order give the same
\* fingerprint, and a build that loads the persisted collection finds in it
\* the embeddings of exactly the content it was given.
C25_FingerprintCoversContent ==
    call.fn = "_build_collection" =>
        /\ \A other \in DocLists :
              /\ ContentOf(other) # ContentOf(call.input.documents) =>
                    ComputeFingerprint(other) # ComputeFingerprint(call.input.documents)
              /\ ContentOf(other) = ContentOf(call.input.documents) =>
                    ComputeFingerprint(other) = ComputeFingerprint(call.input.documents)
        /\ \A r \in call.output :
              r.loaded => r.collection.embedded = ContentOf(call.input.documents)

\* C26: the keys of doc_index are the ids of the documents list, the
\* documents list holds no id twice, and no id is both in _excluded_ids and
\* in doc_index.
C26_Bookkeeping ==
    /\ vs.doc_index = {d \in AllDocIds : vs.documents[d] > 0}
    /\ \A d \in AllDocIds : vs.documents[d] <= 1
    /\ vs.excluded_ids \cap vs.doc_index = {}

\* C27: when add_documents raises because the provider failed, the
\* exclusion set, the documents list, doc_index and every collection are as
\* they were before the call.
C27_AddAllOrNothing ==
    [][lastOp'.op = "add" /\ lastOp'.raised = "ProviderFailure" =>
           vs' = vs /\ chroma' = chroma]_vars

\* C28: a call of a query method that raises the not-built error sends
\* nothing to the provider and leaves the query cache and its count of
\* unsaved entries as they were.
C28_RejectedNoEffect ==
    [][(lastOp'.op \in QueryOps /\ lastOp'.raised = "IndexNotBuilt") =>
           /\ call'.fn = "_embed_query" => call'.output = {}
           /\ qc'.cache = qc.cache
           /\ qc'.dirty = qc.dirty]_vars

\* C29: in every state where the calls return, for every text and partition
\* similarity_to_corpus gives the doc_id and the score of the first result of
\* retrieve with top_k 1 on that partition, and gives (0.0, "") exactly when
\* that retrieve gives no result.
C29_PathsAgree ==
    \A text \in Texts, p \in DocTypes :
        RetrieveRaises(vs, {p}, TRUE) = "none" =>
            LET s == SimilarityToCorpus(vs, chroma, text, {p})
                r == RetrieveResults(vs, chroma, text, 1, {p}, {})
            IN  /\ (s = [score |-> 0, doc_id |-> ""]) <=> (r = <<>>)
                /\ r # <<>> => s = [score |-> r[1].score, doc_id |-> r[1].doc_id]

====
